---- MODULE Spec2Model ----
(***************************************************************************)
(* A model of the Sinch MCP server: the lazily built configuration         *)
(* singleton (getSinchClient), the project resolver (getProjectConfig),    *)
(* the operations of SinchAPIClient, the tool dispatcher (handleToolCall   *)
(* behind the CallTool handler) and the resource handlers (ListResources,  *)
(* ReadResource).                                                          *)
(*                                                                         *)
(* Strings of the program are TLA+ strings; a string the program takes     *)
(* apart (a URI, a phone number, the SINCH_PARENT_PROJECTS value) is a     *)
(* sequence of one-character strings.  A JavaScript value that is absent   *)
(* is the value "undefined" below.                                         *)
(***************************************************************************)
EXTENDS Integers, Sequences, FiniteSets, TLC

VARIABLES
    env,          \* process.env, fixed for the life of the process
    sinchClient,  \* the module-level singleton: NoClient or a built client
    envReads,     \* how many times getSinchClient has read the environment
    pc,           \* "idle", the await the handler in flight is suspended at, or "done";
                  \* "starting" and "exited" for the process before and after main()
    call,         \* the request the handler in flight is serving
    requests,     \* outbound HTTP requests issued by that handler, in order
    iterated,     \* aggregate calls: the parent identifiers iterated so far
    acc,          \* entries / descriptors collected so far by that handler
    invoked,      \* resource handlers: the client methods invoked so far
    resolved,     \* what getProjectConfig returned or threw, the last time the
                  \* handler in flight called it
    answers,      \* how each client call that handler awaited ended, in order
    outcome,      \* what the body of the last finished handler returned or threw
    result,       \* what the last finished protocol handler answered
    peer          \* a second tool call in flight beside the first (NoPeer when none)

vars == <<env, sinchClient, envReads, pc, call, requests, iterated, acc, invoked, resolved,
          answers, outcome, result, peer>>

-----------------------------------------------------------------------------
(* JavaScript values *)

\* An absent property, an unset environment variable, a missing argument.
undefined == "<undefined>"

\* if (x), x || y, !x on strings: undefined and '' are falsy.
Truthy(x) == x # undefined /\ x # ""

\* x || y
OrElse(x, y) == IF Truthy(x) THEN x ELSE y

\* obj.name: undefined when the object has no such property.
Field(obj, name) == IF name \in DOMAIN obj THEN obj[name] ELSE undefined

\* `${x}` in a template literal.
Str(x) == IF x = undefined THEN "undefined" ELSE x

\* A completed computation: a value, or an Error that was thrown.
Return(v) == [ok |-> TRUE, value |-> v]
Throw(msg) == [ok |-> FALSE, error |-> msg]

\* A sequence of one-character strings as one string.
RECURSIVE Join(_)
Join(chars) == IF chars = <<>> THEN "" ELSE Head(chars) \o Join(Tail(chars))

-----------------------------------------------------------------------------
(* Text *)

\* str.split(','): the pieces between the separators, empty pieces kept.
RECURSIVE SplitFrom(_, _, _)
SplitFrom(chars, sep, piece) ==
    IF chars = <<>> THEN <<piece>>
    ELSE IF Head(chars) = sep
         THEN <<piece>> \o SplitFrom(Tail(chars), sep, <<>>)
         ELSE SplitFrom(Tail(chars), sep, Append(piece, Head(chars)))

Split(chars, sep) == SplitFrom(chars, sep, <<>>)

\* p.trim(): white space removed at both ends.
RECURSIVE TrimStart(_)
TrimStart(chars) ==
    IF chars # <<>> /\ Head(chars) = " " THEN TrimStart(Tail(chars)) ELSE chars

RECURSIVE TrimEnd(_)
TrimEnd(chars) ==
    IF chars # <<>> /\ chars[Len(chars)] = " "
    THEN TrimEnd(SubSeq(chars, 1, Len(chars) - 1))
    ELSE chars

Trim(chars) == TrimEnd(TrimStart(chars))

-----------------------------------------------------------------------------
(* The environment *)

\* A value that is an object or undefined (SinchConfig.projects).
NoObject == [defined |-> FALSE]
Obj(entries) == [defined |-> TRUE, entries |-> entries]

\* Named project configurations a SINCH_PROJECTS value may hold: "staging"
\* has no projectId and region eu, "prod" has a projectId and no region.
StagingConfig == [servicePlanId |-> "sp1", apiToken |-> "tok1", region |-> "eu"]
ProdConfig == [servicePlanId |-> "sp2", apiToken |-> "tok2", projectId |-> "p2",
               displayName |-> "Production"]
TwoProjects == [n \in {"staging", "prod"} |->
                   IF n = "staging" THEN StagingConfig ELSE ProdConfig]

\* SINCH_PROJECTS: unset, text that is not JSON, '{}', or the JSON text of
\* an object of named project configurations.
ProjectsEnvValues ==
    { [kind |-> "unset"],
      [kind |-> "malformed"],
      [kind |-> "object", entries |-> <<>>],
      [kind |-> "object", entries |-> TwoProjects] }

\* SINCH_PARENT_PROJECTS: unset (the empty sequence) or the text "a ,b".
ParentProjectsEnvValues == { <<>>, <<"a", " ", ",", "b">> }

Environments ==
    [ SINCH_SERVICE_PLAN_ID : {undefined, "sp0"},
      SINCH_API_TOKEN       : {undefined, "tok0"},
      SINCH_PROJECT_ID      : {undefined, "c"},
      SINCH_CLIENT_ID       : {undefined},
      SINCH_CLIENT_SECRET   : {undefined},
      SINCH_REGION          : {undefined, "eu", "xx"},
      SINCH_PARENT_PROJECTS : ParentProjectsEnvValues,
      SINCH_PROJECTS        : ProjectsEnvValues,
      SINCH_DEFAULT_PROJECT : {undefined, "staging", "prod", "ghost"} ]

\* JSON.parse(projectsEnv): the object, or a SyntaxError.
JSONParse(text) ==
    IF text.kind = "object" THEN Return(Obj(text.entries))
    ELSE Throw("Unexpected token in JSON")

-----------------------------------------------------------------------------
(* getSinchClient *)

NoClient == [built |-> FALSE]
Client(config) == [built |-> TRUE, config |-> config]

\* A variant of ParseParentProjects that leaves the empty entries out.
ParseParentProjectsNoEmpty(parentProjectsEnv) ==
    IF parentProjectsEnv = <<>> THEN <<>>
    ELSE LET pieces == Split(parentProjectsEnv, ",")
             kept == SelectSeq(pieces, LAMBDA piece : Trim(piece) # <<>>)
         IN  [i \in 1..Len(kept) |-> Join(Trim(kept[i]))]

\* parentProjectsEnv ? parentProjectsEnv.split(',').map(p => p.trim()) : []
ParseParentProjects(parentProjectsEnv) ==
    IF parentProjectsEnv = <<>> THEN <<>>
    ELSE LET pieces == Split(parentProjectsEnv, ",")
         IN  [i \in 1..Len(pieces) |-> Join(Trim(pieces[i]))]

\* The SINCH_PROJECTS block: parsed when set, undefined when unset or when
\* JSON.parse throws (the error is logged).
ParseProjects(projectsEnv) ==
    IF projectsEnv.kind = "unset" THEN NoObject
    ELSE LET parsed == JSONParse(projectsEnv)
         IN  IF parsed.ok THEN parsed.value ELSE NoObject

\* The SinchConfig built from the environment.
BuildConfig(e) ==
    [ servicePlanId  |-> e.SINCH_SERVICE_PLAN_ID,
      apiToken       |-> e.SINCH_API_TOKEN,
      projectId      |-> e.SINCH_PROJECT_ID,
      clientId       |-> e.SINCH_CLIENT_ID,
      clientSecret   |-> e.SINCH_CLIENT_SECRET,
      region         |-> OrElse(e.SINCH_REGION, "us"),
      parentProjects |-> ParseParentProjects(e.SINCH_PARENT_PROJECTS),
      projects       |-> ParseProjects(e.SINCH_PROJECTS),
      defaultProject |-> e.SINCH_DEFAULT_PROJECT ]

ConfigRequiredError ==
    "Either legacy config (SINCH_SERVICE_PLAN_ID + SINCH_API_TOKEN) or SINCH_PROJECTS environment variable is required"

\* (!config.servicePlanId || !config.apiToken) && !projects
ConfigMissing(config) ==
    (~Truthy(config.servicePlanId) \/ ~Truthy(config.apiToken))
        /\ ~config.projects.defined

\* getSinchClient() on singleton `client` in environment e: the singleton
\* afterwards, the client returned or the error thrown, and whether the
\* environment was read.
GetSinchClient(client, e) ==
    IF client.built
    THEN [singleton |-> client, outcome |-> Return(client), read |-> 0]
    ELSE LET config == BuildConfig(e)
         IN  IF ConfigMissing(config)
             THEN [singleton |-> client, outcome |-> Throw(ConfigRequiredError),
                   read |-> 1]
             ELSE [singleton |-> Client(config), outcome |-> Return(Client(config)),
                   read |-> 1]

-----------------------------------------------------------------------------
(* SinchAPIClient.getProjectConfig *)

NotFoundError(projectName) ==
    "Project configuration '" \o Str(projectName) \o "' not found"

NoValidConfigError ==
    "No valid project configuration found. Either provide project name or configure default project."

\* this.config.projects && this.config.projects[name]
HasProject(config, name) ==
    config.projects.defined /\ name \in DOMAIN config.projects.entries

\* A variant of the legacy bundle that carries the stored parent-project
\* list along.
LegacyBundleWithParents(config) ==
    [ servicePlanId  |-> config.servicePlanId,
      apiToken       |-> config.apiToken,
      projectId      |-> config.projectId,
      appId          |-> Field(config, "appId"),
      clientId       |-> config.clientId,
      clientSecret   |-> config.clientSecret,
      region         |-> OrElse(config.region, "us"),
      parentProjects |-> config.parentProjects ]

\* The bundle synthesized from the legacy flat fields.
LegacyBundle(config) ==
    [ servicePlanId |-> config.servicePlanId,
      apiToken      |-> config.apiToken,
      projectId     |-> config.projectId,
      appId         |-> Field(config, "appId"),
      clientId      |-> config.clientId,
      clientSecret  |-> config.clientSecret,
      region        |-> OrElse(config.region, "us") ]

\* A variant of the test below that looks at servicePlanId alone.
LegacyPopulatedPlanOnly(config) == Truthy(config.servicePlanId)

\* if (this.config.servicePlanId && this.config.apiToken)
LegacyPopulated(config) ==
    Truthy(config.servicePlanId) /\ Truthy(config.apiToken)

\* if (this.config.defaultProject && this.config.projects) and the lookup
DefaultResolves(config) ==
    Truthy(config.defaultProject) /\ HasProject(config, config.defaultProject)

\* if (projectName)
ProjectRequested(projectName) == Truthy(projectName)

\* A variant of getProjectConfig that tries the legacy fields before the
\* default project.
getProjectConfigLegacyFirst(config, projectName) ==
    IF ProjectRequested(projectName)
    THEN IF HasProject(config, projectName)
         THEN Return(config.projects.entries[projectName])
         ELSE Throw(NotFoundError(projectName))
    ELSE IF LegacyPopulated(config)
         THEN Return(LegacyBundle(config))
         ELSE IF DefaultResolves(config)
              THEN Return(config.projects.entries[config.defaultProject])
              ELSE Throw(NoValidConfigError)

getProjectConfig(config, projectName) ==
    IF ProjectRequested(projectName)
    THEN IF HasProject(config, projectName)
         THEN Return(config.projects.entries[projectName])
         ELSE Throw(NotFoundError(projectName))
    ELSE IF DefaultResolves(config)
         THEN Return(config.projects.entries[config.defaultProject])
         ELSE IF LegacyPopulated(config)
              THEN Return(LegacyBundle(config))
              ELSE Throw(NoValidConfigError)

-----------------------------------------------------------------------------
(* Percent-encoding *)

\* The characters the model's identifiers are made of.
Alphabet == {"a", "b", "1", "+", "%", "/", " ", "?"}

\* Characters encodeURIComponent leaves alone (of the alphabet: the
\* letters and digits).
Unreserved == {"a", "b", "1", "2", "3", "5", "0", "B", "F"}

\* The two hexadecimal digits of a reserved character's code.
PercentCode(ch) ==
    CASE ch = "+" -> <<"2", "B">>
      [] ch = "%" -> <<"2", "5">>
      [] ch = "/" -> <<"2", "F">>
      [] ch = " " -> <<"2", "0">>
      [] ch = "?" -> <<"3", "F">>

RECURSIVE encodeURIComponent(_)
encodeURIComponent(chars) ==
    IF chars = <<>> THEN <<>>
    ELSE (IF Head(chars) \in Unreserved
          THEN <<Head(chars)>>
          ELSE <<"%">> \o PercentCode(Head(chars)))
         \o encodeURIComponent(Tail(chars))

\* The character a two-digit code stands for, "" when the model has none.
CodeChar(hi, lo) ==
    CASE hi = "2" /\ lo = "B" -> "+"
      [] hi = "2" /\ lo = "5" -> "%"
      [] hi = "2" /\ lo = "F" -> "/"
      [] hi = "2" /\ lo = "0" -> " "
      [] hi = "3" /\ lo = "F" -> "?"
      [] OTHER -> ""

\* decodeURIComponent: every %XX replaced by its character; a '%' that is
\* not followed by a code throws URIError.
RECURSIVE decodeURIComponent(_)
decodeURIComponent(chars) ==
    IF chars = <<>> THEN Return(<<>>)
    ELSE IF Head(chars) # "%"
         THEN LET rest == decodeURIComponent(Tail(chars))
              IN  IF rest.ok THEN Return(<<Head(chars)>> \o rest.value) ELSE rest
         ELSE IF Len(chars) < 3 \/ CodeChar(chars[2], chars[3]) = ""
              THEN Throw("URI malformed")
              ELSE LET rest == decodeURIComponent(SubSeq(chars, 4, Len(chars)))
                   IN  IF rest.ok
                       THEN Return(<<CodeChar(chars[2], chars[3])>> \o rest.value)
                       ELSE rest

-----------------------------------------------------------------------------
(* SinchAPIClient: the per-family clients and the operations *)

Bearer(projectConfig) == "Bearer " \o Str(Field(projectConfig, "apiToken"))

\* A variant of createSMSClient whose base address is that of one region.
SMSBaseURLOneRegion(projectConfig) == "https://us.sms.api.sinch.com"

\* createSMSClient: the base address is templated by the region.
SMSBaseURL(projectConfig) ==
    "https://" \o OrElse(Field(projectConfig, "region"), "us") \o ".sms.api.sinch.com"

NumbersBaseURL == "https://numbers.api.sinch.com"
VerificationBaseURL == "https://verification.api.sinch.com"
SubprojectBaseURL == "https://subproject.api.sinch.com"

\* One outbound HTTP request of an axios client.
Request(method, baseURL, projectConfig, path, body) ==
    [ method        |-> method,
      baseURL       |-> baseURL,
      authorization |-> Bearer(projectConfig),
      path          |-> path,
      body          |-> body ]

NoBody == <<>>

ProjectIdRequiredError(projectName) ==
    "Project ID required for Numbers API. Please configure projectId for project '"
        \o OrElse(projectName, "default") \o "'"

\* { ...base, ...options } as sent: `keys` are the properties the options
\* object holds, `options` those of them whose value is not undefined (a
\* property spread in as undefined is dropped when the body is serialized).
Spread(base, keys, options) ==
    [k \in (DOMAIN base \ keys) \cup DOMAIN options |->
        IF k \in keys THEN options[k] ELSE base[k]]

\* new URLSearchParams with the given pairs set, as `${params}`. The values
\* of the calls considered hold no character that serialization escapes but
\* the ',' of capability.join(','), which Dispatch passes as "%2C".
RECURSIVE Query(_)
Query(pairs) ==
    IF pairs = <<>> THEN ""
    ELSE pairs[1][1] \o "=" \o pairs[1][2]
         \o (IF Len(pairs) > 1 THEN "&" ELSE "") \o Query(Tail(pairs))

\* The pairs whose value is set, in order.
SetPairs(pairs) == SelectSeq(pairs, LAMBDA p : Truthy(p[2]))

\* How a client method ends before its await: the request it issues or the
\* error it throws, with what its getProjectConfig call returned or threw.
Attempt(completion, resolution) ==
    [ok |-> completion.ok, completion |-> completion, resolved |-> resolution]

\* An operation ends, before its await, with the request built from the
\* configuration it resolved, or with the error getProjectConfig threw.
WithProject(resolution, request) ==
    IF resolution.ok
    THEN Attempt(Return(request), resolution)
    ELSE Attempt(resolution, resolution)

\* A variant of the precondition below that never finds projectId missing.
MissingProjectIdNever(projectConfig) == FALSE

\* if (!projectConfig.projectId)
MissingProjectId(projectConfig) == ~Truthy(Field(projectConfig, "projectId"))

\* A Numbers operation: as above, after the projectId precondition.
WithNumbersProject(resolution, projectName, request) ==
    IF ~resolution.ok THEN Attempt(resolution, resolution)
    ELSE IF MissingProjectId(resolution.value)
         THEN Attempt(Throw(ProjectIdRequiredError(projectName)), resolution)
         ELSE Attempt(Return(request), resolution)

SMSPath(projectConfig, rest) ==
    "/xms/v1/" \o Str(Field(projectConfig, "servicePlanId")) \o "/batches" \o rest

NumbersPath(projectConfig, rest) ==
    "/v1/projects/" \o Str(Field(projectConfig, "projectId")) \o rest

SubprojectsPath(parentProjectId, rest) ==
    "/v1alpha1/projects/" \o Str(parentProjectId) \o "/subprojects" \o rest

\* A variant of sendSMS that sends the project name along in the body.
sendSMSForwardingSelector(config, to, from, body, optionKeys, options, projectName) ==
    LET resolution == getProjectConfig(config, projectName)
        pc0 == resolution.value
        request ==
            Request("POST", SMSBaseURL(pc0), pc0, SMSPath(pc0, ""),
                Spread([ to |-> to, from |-> from, body |-> body,
                         delivery_report |-> IF "delivery_report" \in DOMAIN options
                                             THEN OrElse(options.delivery_report, "none")
                                             ELSE "none",
                         flash_message |-> IF "flash_message" \in DOMAIN options
                                           THEN options.flash_message
                                           ELSE FALSE ]
                        @@ (IF "expire_at" \in DOMAIN options
                            THEN [expire_at |-> options.expire_at] ELSE <<>>),
                       optionKeys, options)
                    @@ (IF projectName = undefined THEN <<>>
                        ELSE [project_config |-> projectName]))
    IN  WithProject(resolution, request)

sendSMS(config, to, from, body, optionKeys, options, projectName) ==
    LET resolution == getProjectConfig(config, projectName)
        pc0 == resolution.value
        request ==
            Request("POST", SMSBaseURL(pc0), pc0, SMSPath(pc0, ""),
                Spread([ to |-> to, from |-> from, body |-> body,
                         delivery_report |-> IF "delivery_report" \in DOMAIN options
                                             THEN OrElse(options.delivery_report, "none")
                                             ELSE "none",
                         flash_message |-> IF "flash_message" \in DOMAIN options
                                           THEN options.flash_message
                                           ELSE FALSE ]
                        @@ (IF "expire_at" \in DOMAIN options
                            THEN [expire_at |-> options.expire_at] ELSE <<>>),
                       optionKeys, options))
    IN  WithProject(resolution, request)

getSMSBatch(config, batchId, projectName) ==
    LET resolution == getProjectConfig(config, projectName)
        pc0 == resolution.value
        request ==
            Request("GET", SMSBaseURL(pc0), pc0, SMSPath(pc0, "/" \o Str(batchId)), NoBody)
    IN  WithProject(resolution, request)

\* A variant of getDeliveryReport that asks for the summary whatever the
\* flag.
getDeliveryReportSummaryOnly(config, batchId, full, projectName) ==
    LET endpoint == "delivery_report/summary"
        resolution == getProjectConfig(config, projectName)
        pc0 == resolution.value
        request ==
            Request("GET", SMSBaseURL(pc0), pc0,
                    SMSPath(pc0, "/" \o Str(batchId) \o "/" \o endpoint), NoBody)
    IN  WithProject(resolution, request)

getDeliveryReport(config, batchId, full, projectName) ==
    LET endpoint == IF full THEN "delivery_report/full" ELSE "delivery_report/summary"
        resolution == getProjectConfig(config, projectName)
        pc0 == resolution.value
        request ==
            Request("GET", SMSBaseURL(pc0), pc0,
                    SMSPath(pc0, "/" \o Str(batchId) \o "/" \o endpoint), NoBody)
    IN  WithProject(resolution, request)

listSMSBatches(config, startDate, endDate, projectName) ==
    LET params == SetPairs(<< <<"start_date", startDate>>, <<"end_date", endDate>> >>)
        resolution == getProjectConfig(config, projectName)
        pc0 == resolution.value
        request ==
            Request("GET", SMSBaseURL(pc0), pc0, SMSPath(pc0, "?" \o Query(params)), NoBody)
    IN  WithProject(resolution, request)

searchAvailableNumbers(config, regionCode, type, capability, projectName) ==
    LET params == SetPairs(<< <<"regionCode", regionCode>>, <<"type", type>>,
                              <<"capability", capability>> >>)
        resolution == getProjectConfig(config, projectName)
        pc0 == resolution.value
        request ==
            Request("GET", NumbersBaseURL, pc0,
                    NumbersPath(pc0, "/availableNumbers?" \o Query(params)), NoBody)
    IN  WithNumbersProject(resolution, projectName, request)

activateNumber(config, phoneNumber, smsConfiguration, voiceConfiguration, projectName) ==
    LET resolution == getProjectConfig(config, projectName)
        pc0 == resolution.value
        request ==
            Request("POST", NumbersBaseURL, pc0, NumbersPath(pc0, "/activeNumbers"),
                    [phoneNumber |-> phoneNumber]
                        @@ (IF Truthy(smsConfiguration)
                            THEN [smsConfiguration |-> smsConfiguration] ELSE <<>>)
                        @@ (IF Truthy(voiceConfiguration)
                            THEN [voiceConfiguration |-> voiceConfiguration] ELSE <<>>))
    IN  WithNumbersProject(resolution, projectName, request)

listActiveNumbers(config, projectName) ==
    LET resolution == getProjectConfig(config, projectName)
        pc0 == resolution.value
        request ==
            Request("GET", NumbersBaseURL, pc0, NumbersPath(pc0, "/activeNumbers"), NoBody)
    IN  WithNumbersProject(resolution, projectName, request)

getActiveNumber(config, phoneNumber, projectName) ==
    LET resolution == getProjectConfig(config, projectName)
        pc0 == resolution.value
        request ==
            Request("GET", NumbersBaseURL, pc0,
                    NumbersPath(pc0, "/activeNumbers/" \o Join(encodeURIComponent(phoneNumber))),
                    NoBody)
    IN  WithNumbersProject(resolution, projectName, request)

releaseNumber(config, phoneNumber, projectName) ==
    LET resolution == getProjectConfig(config, projectName)
        pc0 == resolution.value
        request ==
            Request("DELETE", NumbersBaseURL, pc0,
                    NumbersPath(pc0, "/activeNumbers/" \o Join(encodeURIComponent(phoneNumber))),
                    NoBody)
    IN  WithNumbersProject(resolution, projectName, request)

\* The properties of a record of strings whose value is not undefined (what
\* JSON serialization keeps).
Defined(rec) == [k \in {f \in DOMAIN rec : rec[f] # undefined} |-> rec[k]]

startVerification(config, identity, method, options, projectName) ==
    LET resolution == getProjectConfig(config, projectName)
        pc0 == resolution.value
        request ==
            Request("POST", VerificationBaseURL, pc0, "/verification/v1/verifications",
                    [identity |-> [type |-> "number", endpoint |-> identity]]
                        @@ Defined([method |-> method]) @@ Defined(options))
    IN  WithProject(resolution, request)

reportVerification(config, id, code, projectName) ==
    LET resolution == getProjectConfig(config, projectName)
        pc0 == resolution.value
        request ==
            Request("PUT", VerificationBaseURL, pc0,
                    "/verification/v1/verifications/id/" \o Str(id),
                    [method |-> "sms", sms |-> Defined([code |-> code])])
    IN  WithProject(resolution, request)

getVerification(config, id, projectName) ==
    LET resolution == getProjectConfig(config, projectName)
        pc0 == resolution.value
        request ==
            Request("GET", VerificationBaseURL, pc0,
                    "/verification/v1/verifications/id/" \o Str(id), NoBody)
    IN  WithProject(resolution, request)

createSubproject(config, parentProjectId, displayName, options, projectName) ==
    LET resolution == getProjectConfig(config, projectName)
        pc0 == resolution.value
        request ==
            Request("POST", SubprojectBaseURL, pc0, SubprojectsPath(parentProjectId, ""),
                    Defined([displayName |-> displayName]) @@ Defined(options))
    IN  WithProject(resolution, request)

listSubprojects(config, parentProjectId, projectName) ==
    LET resolution == getProjectConfig(config, projectName)
        pc0 == resolution.value
        request ==
            Request("GET", SubprojectBaseURL, pc0, SubprojectsPath(parentProjectId, ""), NoBody)
    IN  WithProject(resolution, request)

getSubproject(config, parentProjectId, subprojectId, projectName) ==
    LET resolution == getProjectConfig(config, projectName)
        pc0 == resolution.value
        request ==
            Request("GET", SubprojectBaseURL, pc0,
                    SubprojectsPath(parentProjectId, "/" \o Str(subprojectId)), NoBody)
    IN  WithProject(resolution, request)

deleteSubproject(config, parentProjectId, subprojectId, projectName) ==
    LET resolution == getProjectConfig(config, projectName)
        pc0 == resolution.value
        request ==
            Request("DELETE", SubprojectBaseURL, pc0,
                    SubprojectsPath(parentProjectId, "/" \o Str(subprojectId)), NoBody)
    IN  WithProject(resolution, request)

\* listConfiguredProjects: the named projects (in the object's key order,
\* here as a set), then 'default' for a populated legacy configuration.
listConfiguredProjects(config) ==
    [ named  |-> IF config.projects.defined
                 THEN { [ name        |-> n,
                          displayName |-> OrElse(Field(config.projects.entries[n], "displayName"), n),
                          projectId   |-> Field(config.projects.entries[n], "projectId") ]
                        : n \in DOMAIN config.projects.entries }
                 ELSE {},
      legacy |-> IF LegacyPopulated(config)
                 THEN << [ name |-> "default", displayName |-> "Default Project",
                           projectId |-> config.projectId ] >>
                 ELSE <<>> ]

-----------------------------------------------------------------------------
(* The aggregate operations *)

\* const parentProjects = this.config.parentProjects || [];
\* if (this.config.projectId) parentProjects.push(this.config.projectId);
\* getSinchClient always stores an array, so the push is onto the array the
\* configuration holds.
PushLegacyProject(config) ==
    IF Truthy(config.projectId)
    THEN [config EXCEPT !.parentProjects = Append(@, config.projectId)]
    ELSE config

\* The entry an aggregate operation records for one parent.
SuccessEntry(tool, parentProjectId, response) ==
    IF tool = "list_all_subprojects"
    THEN [ parentProjectId |-> parentProjectId,
           subprojects |-> IF "subprojects" \in DOMAIN response
                           THEN response.subprojects ELSE <<>> ]
    ELSE [ parentProjectId |-> parentProjectId, status |-> "accessible",
           message |-> "Successfully connected" ]

\* A variant of FailureEntry that leaves the empty subprojects list out.
FailureEntryNoList(tool, parentProjectId, message) ==
    IF tool = "list_all_subprojects"
    THEN [ parentProjectId |-> parentProjectId, error |-> message ]
    ELSE [ parentProjectId |-> parentProjectId, status |-> "error", message |-> message ]

\* A variant of FailureEntry that reports a failed probe as accessible.
FailureEntryAccessible(tool, parentProjectId, message) ==
    IF tool = "list_all_subprojects"
    THEN [ parentProjectId |-> parentProjectId, error |-> message, subprojects |-> <<>> ]
    ELSE [ parentProjectId |-> parentProjectId, status |-> "accessible",
           message |-> message ]

FailureEntry(tool, parentProjectId, message) ==
    IF tool = "list_all_subprojects"
    THEN [ parentProjectId |-> parentProjectId, error |-> message, subprojects |-> <<>> ]
    ELSE [ parentProjectId |-> parentProjectId, status |-> "error", message |-> message ]

\* The for-of loop from position `pos` of the stored list, up to its next
\* await: parents whose listSubprojects call throws before any request get
\* their failure entry at once; the loop stops at the first parent whose
\* request goes out (request # NoRequest) or at the end of the list.
NoRequest == [none |-> TRUE]

RECURSIVE RunLoop(_, _, _, _)
RunLoop(config, tool, pos, loop) ==
    IF pos > Len(config.parentProjects)
    THEN [loop EXCEPT !.request = NoRequest]
    ELSE LET parentProjectId == config.parentProjects[pos]
             attempt == listSubprojects(config, parentProjectId, undefined)
         IN  IF attempt.ok
             THEN [ loop EXCEPT !.seen = Append(@, parentProjectId),
                                !.resolved = attempt.resolved,
                                !.request = attempt.completion.value ]
             ELSE RunLoop(config, tool, pos + 1,
                    [ loop EXCEPT
                        !.entries = Append(@, FailureEntry(tool, parentProjectId,
                                                           attempt.completion.error)),
                        !.seen = Append(@, parentProjectId),
                        !.answers = Append(@, attempt.completion),
                        !.resolved = attempt.resolved ])

-----------------------------------------------------------------------------
(* The tool catalog and handleToolCall *)

\* The names of the tool catalog, in its order.
tools ==
    << "list_configured_projects", "send_sms", "get_sms_batch", "get_delivery_report",
       "list_sms_batches", "search_available_numbers", "activate_number",
       "list_active_numbers", "get_active_number", "release_number",
       "start_verification", "report_verification", "get_verification",
       "create_subproject", "list_subprojects", "get_subproject", "delete_subproject",
       "list_all_subprojects", "test_parent_projects" >>

AggregateTools == {"list_all_subprojects", "test_parent_projects"}

\* A variant of the switch that has no case for release_number.
SwitchCasesWithoutRelease ==
    { "list_configured_projects", "send_sms", "get_sms_batch", "get_delivery_report",
      "list_sms_batches", "search_available_numbers", "activate_number",
      "list_active_numbers", "get_active_number",
      "start_verification", "report_verification", "get_verification",
      "create_subproject", "list_subprojects", "get_subproject", "delete_subproject",
      "list_all_subprojects", "test_parent_projects" }

\* The case labels of the switch in handleToolCall.
SwitchCases ==
    { "list_configured_projects", "send_sms", "get_sms_batch", "get_delivery_report",
      "list_sms_batches", "search_available_numbers", "activate_number",
      "list_active_numbers", "get_active_number", "release_number",
      "start_verification", "report_verification", "get_verification",
      "create_subproject", "list_subprojects", "get_subproject", "delete_subproject",
      "list_all_subprojects", "test_parent_projects" }

\* array.join(',')
RECURSIVE JoinWith(_, _)
JoinWith(items, sep) ==
    IF items = <<>> THEN ""
    ELSE IF Len(items) = 1 THEN items[1]
         ELSE items[1] \o sep \o JoinWith(Tail(items), sep)

\* Reading a property of `undefined` arguments.
ArgumentsTypeError(property) ==
    "Cannot read properties of undefined (reading '" \o property \o "')"

\* The first property of args a tool's case reads ("" when it reads none).
FirstArgument(name) ==
    CASE name = "send_sms" -> "to"
      [] name \in {"get_sms_batch", "get_delivery_report"} -> "batch_id"
      [] name = "list_sms_batches" -> "start_date"
      [] name = "search_available_numbers" -> "region_code"
      [] name \in {"activate_number", "get_active_number", "release_number",
                   "start_verification"} -> "phone_number"
      [] name = "list_active_numbers" -> "project_config"
      [] name \in {"report_verification", "get_verification"} -> "verification_id"
      [] name \in {"create_subproject", "list_subprojects", "get_subproject",
                   "delete_subproject"} -> "parent_project_id"
      [] OTHER -> ""

UnknownToolError(name) == "Unknown tool: " \o name

\* What the switch of handleToolCall does with a client in hand, up to the
\* first await: the value returned (kind "return"), the error thrown
\* ("throw"), the request a client method issues ("request"), or the start
\* of an aggregate operation ("aggregate").
Returned(v) == [kind |-> "return", value |-> v, resolved |-> [none |-> TRUE]]
Thrown(msg) == [kind |-> "throw", error |-> msg, resolved |-> [none |-> TRUE]]
Issued(attempt) ==
    IF attempt.ok
    THEN [ kind |-> "request", request |-> attempt.completion.value,
           resolved |-> attempt.resolved ]
    ELSE [ kind |-> "throw", error |-> attempt.completion.error,
           resolved |-> attempt.resolved ]

Dispatch(config, name, args) ==
    LET A(k) == Field(args.entries, k)
        P == A("project_config")
    IN  IF name = "list_configured_projects" THEN Returned(listConfiguredProjects(config))
        ELSE IF name \in AggregateTools THEN [kind |-> "aggregate"]
        ELSE IF name \notin SwitchCases THEN Thrown(UnknownToolError(name))
        ELSE IF ~args.defined THEN Thrown(ArgumentsTypeError(FirstArgument(name)))
        ELSE CASE name = "send_sms" ->
                    Issued(sendSMS(config, A("to"), A("from"), A("body"),
                        {"delivery_report", "expire_at", "flash_message"},
                        [k \in DOMAIN args.entries
                               \cap {"delivery_report", "expire_at", "flash_message"}
                            |-> args.entries[k]],
                        P))
               [] name = "get_sms_batch" -> Issued(getSMSBatch(config, A("batch_id"), P))
               [] name = "get_delivery_report" ->
                    Issued(getDeliveryReport(config, A("batch_id"),
                        IF "full" \in DOMAIN args.entries THEN args.entries.full ELSE FALSE,
                        P))
               [] name = "list_sms_batches" ->
                    Issued(listSMSBatches(config, A("start_date"), A("end_date"), P))
               [] name = "search_available_numbers" ->
                    Issued(searchAvailableNumbers(config, A("region_code"), A("type"),
                        IF "capability" \in DOMAIN args.entries
                        THEN JoinWith(args.entries.capability, "%2C") ELSE undefined,
                        P))
               [] name = "activate_number" ->
                    Issued(activateNumber(config, A("phone_number"), A("sms_configuration"),
                                          A("voice_configuration"), P))
               [] name = "list_active_numbers" -> Issued(listActiveNumbers(config, P))
               [] name = "get_active_number" ->
                    Issued(getActiveNumber(config, A("phone_number"), P))
               [] name = "release_number" ->
                    Issued(releaseNumber(config, A("phone_number"), P))
               [] name = "start_verification" ->
                    Issued(startVerification(config, A("phone_number"), A("method"),
                        [custom |-> A("custom"), reference |-> A("reference")], P))
               [] name = "report_verification" ->
                    Issued(reportVerification(config, A("verification_id"), A("code"), P))
               [] name = "get_verification" ->
                    Issued(getVerification(config, A("verification_id"), P))
               [] name = "create_subproject" ->
                    Issued(createSubproject(config, A("parent_project_id"), A("display_name"),
                        [description |-> A("description")], P))
               [] name = "list_subprojects" ->
                    Issued(listSubprojects(config, A("parent_project_id"), P))
               [] name = "get_subproject" ->
                    Issued(getSubproject(config, A("parent_project_id"), A("subproject_id"), P))
               [] name = "delete_subproject" ->
                    Issued(deleteSubproject(config, A("parent_project_id"),
                                            A("subproject_id"), P))

\* JSON.stringify(result, null, 2): the text of a value, kept as the value
\* under a tag that sets it apart from the value itself.
JSONStringify(value) == [json |-> value]

\* A variant of CallToolResult that does not flag the error result.
CallToolResultUnflagged(completion) ==
    IF completion.ok
    THEN [returned |-> TRUE, isError |-> FALSE, text |-> JSONStringify(completion.value)]
    ELSE [returned |-> TRUE, isError |-> FALSE, text |-> "Error: " \o completion.error]

\* The CallTool handler's answer to what handleToolCall returned or threw.
CallToolResult(completion) ==
    IF completion.ok
    THEN [returned |-> TRUE, isError |-> FALSE, text |-> JSONStringify(completion.value)]
    ELSE [returned |-> TRUE, isError |-> TRUE, text |-> "Error: " \o completion.error]

-----------------------------------------------------------------------------
(* Resource URIs *)

\* The part of `chars` before the first character of `stops` (all of it when
\* there is none), and the part from that character on.
RECURSIVE Before(_, _)
Before(chars, stops) ==
    IF chars = <<>> \/ Head(chars) \in stops THEN <<>>
    ELSE <<Head(chars)>> \o Before(Tail(chars), stops)

From(chars, stops) == SubSeq(chars, Len(Before(chars, stops)) + 1, Len(chars))

SchemeChars == {"s", "i", "n", "c", "h", "t", "p", "a", "b", "m"}

\* A path as the URL record holds it: a space is percent-encoded, other
\* characters of the model's alphabet are kept.
RECURSIVE EncodePath(_)
EncodePath(chars) ==
    IF chars = <<>> THEN <<>>
    ELSE (IF Head(chars) = " " THEN <<"%", "2", "0">> ELSE <<Head(chars)>>)
         \o EncodePath(Tail(chars))

\* new URL(uri) for the URIs of the model: the scheme up to the first ':';
\* after '//' a host up to the next '/' or '?'; then the path up to '?'.
\* A text with no scheme, or a host with a space in it, is a TypeError.
ParseURL(uri) ==
    LET scheme == Before(uri, {":"})
        rest == Tail(From(uri, {":"}))
        hasHost == Len(rest) >= 2 /\ rest[1] = "/" /\ rest[2] = "/"
        afterSlashes == SubSeq(rest, 3, Len(rest))
        host == IF hasHost THEN Before(afterSlashes, {"/", "?"}) ELSE <<>>
        path == Before(IF hasHost THEN From(afterSlashes, {"/", "?"}) ELSE rest, {"?"})
    IN  IF Len(scheme) = Len(uri) \/ scheme = <<>>
           \/ \E i \in 1..Len(scheme) : scheme[i] \notin SchemeChars
        THEN Throw("Invalid URL")
        ELSE IF \E i \in 1..Len(host) : host[i] = " "
             THEN Throw("Invalid URL")
             ELSE Return([ protocol |-> Join(scheme) \o ":",
                           host     |-> Join(host),
                           pathname |-> IF hasHost \/ (rest # <<>> /\ rest[1] = "/")
                                        THEN EncodePath(path) ELSE path ])

\* url.pathname.split('/').filter(Boolean)
PathParts(pathname) == SelectSeq(Split(pathname, "/"), LAMBDA part : part # <<>>)

\* pathParts[i], 0-based as in the code; undefined past the end.
Part(pathParts, i) == IF i + 1 <= Len(pathParts) THEN Join(pathParts[i + 1]) ELSE undefined

BatchURIPrefix ==
    <<"s", "i", "n", "c", "h", ":", "/", "/", "s", "m", "s", "/", "b", "a", "t", "c", "h", "/">>

NumberURIPrefix ==
    <<"s", "i", "n", "c", "h", ":", "/", "/", "n", "u", "m", "b", "e", "r", "s", "/",
      "a", "c", "t", "i", "v", "e", "/">>

\* `sinch://sms/batch/${batch.id}`
BatchURI(id) == BatchURIPrefix \o id

\* `sinch://numbers/active/${encodeURIComponent(number.phoneNumber)}`
NumberURI(phoneNumber) == NumberURIPrefix \o encodeURIComponent(phoneNumber)

BatchDescriptor(batch) ==
    [ uri         |-> BatchURI(batch.id),
      mimeType    |-> "application/json",
      name        |-> "SMS Batch " \o Join(batch.id),
      description |-> <<"SMS batch to ", Len(batch.to), " recipients">> ]

NumberDescriptor(number) ==
    [ uri         |-> NumberURI(number.phoneNumber),
      mimeType    |-> "application/json",
      name        |-> "Phone Number " \o Join(number.phoneNumber),
      description |-> "Active phone number with capabilities: "
                        \o (IF "capability" \in DOMAIN number
                            THEN JoinWith(number.capability, ", ") ELSE "undefined") ]

ResourceNotFoundError(uri) == "Resource not found: " \o Join(uri)

\* What ReadResource does with a parsed URL and a client in hand, up to its
\* await: the client method it invokes and with which identifier, or the
\* error it throws.
Invocation(method, argument) ==
    [method |-> method, argument |-> argument, projectName |-> undefined]

\* A variant of Recognize that does not look at the scheme.
RecognizeAnyScheme(uri, url) ==
    LET pathParts == PathParts(url.pathname)
    IN  IF Part(pathParts, 0) = "sms" /\ Part(pathParts, 1) = "batch"
           /\ Truthy(Part(pathParts, 2))
        THEN Return(Invocation("getSMSBatch", pathParts[3]))
        ELSE IF Part(pathParts, 0) = "numbers" /\ Part(pathParts, 1) = "active"
                /\ Truthy(Part(pathParts, 2))
             THEN LET decoded == decodeURIComponent(pathParts[3])
                  IN  IF decoded.ok
                      THEN Return(Invocation("getActiveNumber", decoded.value))
                      ELSE decoded
             ELSE Throw(ResourceNotFoundError(uri))

Recognize(uri, url) ==
    LET pathParts == PathParts(url.pathname)
    IN  IF url.protocol = "sinch:"
           /\ Part(pathParts, 0) = "sms" /\ Part(pathParts, 1) = "batch"
           /\ Truthy(Part(pathParts, 2))
        THEN Return(Invocation("getSMSBatch", pathParts[3]))
        ELSE IF url.protocol = "sinch:"
                /\ Part(pathParts, 0) = "numbers" /\ Part(pathParts, 1) = "active"
                /\ Truthy(Part(pathParts, 2))
             THEN LET decoded == decodeURIComponent(pathParts[3])
                  IN  IF decoded.ok
                      THEN Return(Invocation("getActiveNumber", decoded.value))
                      ELSE decoded
             ELSE Throw(ResourceNotFoundError(uri))

-----------------------------------------------------------------------------
(* Requests the model sends to the server, and the remote's answers *)

\* Upper bound on the length the stored parent-project list may reach: an
\* aggregate call that would push onto a list of this length is not started.
MaxParents == 4

\* Upper bound on the number of times the environment is read: a call that
\* would read it once more is not started.
MaxEnvReads == 2

\* Values of the project_config argument: absent, '', a configured name
\* without projectId, a name that is not configured, and the name
\* listConfiguredProjects gives the legacy configuration.
Selectors == { <<>>, [project_config |-> ""], [project_config |-> "staging"],
               [project_config |-> "ghost"], [project_config |-> "default"] }

PhoneNumber == <<"+", "1">>

\* The arguments the model passes to a tool, the selector apart.
BaseArguments(name) ==
    CASE name = "send_sms" ->
            { [to |-> <<"+15550001">>, from |-> "+15550002", body |-> "hi"],
              [to |-> <<"+15550001">>, from |-> "+15550002", body |-> "hi",
               delivery_report |-> "full", flash_message |-> TRUE] }
      [] name = "get_sms_batch" -> { [batch_id |-> "b1"] }
      [] name = "get_delivery_report" ->
            { [batch_id |-> "b1"], [batch_id |-> "b1", full |-> TRUE],
              [batch_id |-> "b1", full |-> FALSE] }
      [] name = "list_sms_batches" -> { <<>>, [start_date |-> "2024-01-01"] }
      [] name = "search_available_numbers" ->
            { [region_code |-> "US", capability |-> <<"SMS", "VOICE">>] }
      [] name \in {"activate_number", "get_active_number", "release_number"} ->
            { [phone_number |-> PhoneNumber] }
      [] name = "start_verification" ->
            { [phone_number |-> PhoneNumber, method |-> "sms"] }
      [] name = "report_verification" -> { [verification_id |-> "v1", code |-> "1234"] }
      [] name = "get_verification" -> { [verification_id |-> "v1"] }
      [] name = "create_subproject" ->
            { [parent_project_id |-> "a", display_name |-> "Sub"] }
      [] name = "list_subprojects" -> { [parent_project_id |-> "a"] }
      [] name \in {"get_subproject", "delete_subproject"} ->
            { [parent_project_id |-> "a", subproject_id |-> "s1"] }
      [] OTHER -> { <<>> }

\* Tool names a client may call: the catalog and a name outside it.
RECURSIVE Range(_)
Range(seq) == IF seq = <<>> THEN {} ELSE {Head(seq)} \cup Range(Tail(seq))

CalledNames == Range(tools) \cup {"send_email"}

\* request.params.arguments: an object, or undefined.
ToolArguments(name) ==
    {NoObject} \cup { Obj(b @@ sel) : b \in BaseArguments(name), sel \in Selectors }

\* What the remote answers to a request: a response body, or a failure
\* (network failure, non-2xx status) that axios throws.
RemoteFailure == "Request failed with status code 500"

ToolResponses == { Return([id |-> "r1"]), Throw(RemoteFailure) }

SubprojectResponses == { Return([subprojects |-> <<"s1">>]), Throw(RemoteFailure) }

\* Identifiers the remote holds: batch ids and phone numbers.
BatchIds == { <<"b", "1">>, <<"a", "/", "b">> }
PhoneNumbers == { <<"+", "1">>, <<"a", " ", "%">> }

Batch(id) == [id |-> id, to |-> <<"+15550001">>]
ActiveNumber(phoneNumber) == [phoneNumber |-> phoneNumber, capability |-> <<"SMS">>]

BatchListResponses ==
    { Return(<<>>),
      Return([batches |-> <<Batch(<<"b", "1">>), Batch(<<"a", "/", "b">>)>>]),
      Throw(RemoteFailure) }

NumberListResponses ==
    { Return(<<>>),
      Return([activeNumbers |-> <<ActiveNumber(<<"+", "1">>), ActiveNumber(<<"a", " ", "%">>)>>]),
      Throw(RemoteFailure) }

\* URIs a client may ask to read, besides those ListResources synthesizes.
\* With an empty host: a batch, a number, a number whose escape is cut short.
EmptyHostBatchURI ==
    <<"s", "i", "n", "c", "h", ":", "/", "/", "/", "s", "m", "s", "/", "b", "a", "t", "c", "h", "/", "b", "1">>
EmptyHostNumberURI ==
    <<"s", "i", "n", "c", "h", ":", "/", "/", "/", "n", "u", "m", "b", "e", "r", "s", "/",
      "a", "c", "t", "i", "v", "e", "/", "%", "2", "B", "1">>
MalformedEscapeURI ==
    <<"s", "i", "n", "c", "h", ":", "/", "/", "/", "n", "u", "m", "b", "e", "r", "s", "/",
      "a", "c", "t", "i", "v", "e", "/", "%">>
\* With no '//' after the scheme.
OpaquePathURI ==
    <<"s", "i", "n", "c", "h", ":", "s", "m", "s", "/", "b", "a", "t", "c", "h", "/", "b", "1">>
\* A missing identifier, an unknown kind, an unknown family, a wrong scheme.
MissingIdURI ==
    <<"s", "i", "n", "c", "h", ":", "/", "/", "/", "s", "m", "s", "/", "b", "a", "t", "c", "h">>
UnknownKindURI ==
    <<"s", "i", "n", "c", "h", ":", "/", "/", "/", "s", "m", "s", "/", "i", "n", "b", "a", "t", "c", "h", "/", "b", "1">>
UnknownFamilyURI ==
    <<"s", "i", "n", "c", "h", ":", "/", "/", "/", "m", "m", "s", "/", "b", "a", "t", "c", "h", "/", "b", "1">>
WrongSchemeURI ==
    <<"h", "t", "t", "p", ":", "/", "/", "h", "/", "s", "m", "s", "/", "b", "a", "t", "c", "h", "/", "b", "1">>
\* A text that is no URL.
NoSchemeURI == <<"b", "a", "t", "c", "h", " ", "b", "1">>

OtherURIs ==
    { EmptyHostBatchURI, EmptyHostNumberURI, MalformedEscapeURI, OpaquePathURI,
      MissingIdURI, UnknownKindURI, UnknownFamilyURI, WrongSchemeURI, NoSchemeURI }

\* The URIs read: those ListResources synthesizes for the remote's items,
\* and the others.
ReadURIs ==
    { BatchURI(id) : id \in BatchIds } \cup { NumberURI(n) : n \in PhoneNumbers }
        \cup OtherURIs

-----------------------------------------------------------------------------
(* The state machine *)

None == [none |-> TRUE]
NoCall == [kind |-> "none"]
NoPeer == [pc |-> "idle"]

\* The module as loaded: no client yet, no handler in flight.
Unstarted ==
    /\ sinchClient = NoClient
    /\ envReads = 0
    /\ call = NoCall
    /\ requests = <<>>
    /\ iterated = <<>>
    /\ acc = <<>>
    /\ invoked = <<>>
    /\ resolved = None
    /\ answers = <<>>
    /\ outcome = None
    /\ result = None
    /\ peer = NoPeer

Loaded == env \in Environments /\ Unstarted

\* The server connected, its handlers ready to be invoked.
Init == Loaded /\ pc = "idle"

\* A handler that has finished: what its body returned or threw, and what
\* the protocol handler answered.
Finish(completion, answer) ==
    /\ pc' = "done"
    /\ outcome' = completion
    /\ result' = answer

\* A handler suspended at an await.
Suspend(at) ==
    /\ pc' = at
    /\ outcome' = None
    /\ result' = None

\* getSinchClient() as the first step of a handler.
Acquire(got) ==
    /\ envReads + got.read <= MaxEnvReads
    /\ envReads' = envReads + got.read
    /\ sinchClient' = got.singleton

\* The state of the aggregate loop before its first iteration.
LoopStart ==
    [entries |-> <<>>, seen |-> <<>>, answers |-> <<>>, resolved |-> None,
     request |-> NoRequest]

\* The CallTool handler, from the request to the handler's first await (or
\* to its end when it reaches none).
CallTool(name, args) ==
    /\ pc = "idle"
    /\ call' = [kind |-> "tool", name |-> name, args |-> args]
    /\ LET got == GetSinchClient(sinchClient, env)
       IN  IF ~got.outcome.ok
           THEN /\ Acquire(got)
                /\ Finish(got.outcome, CallToolResult(got.outcome))
                /\ requests' = <<>> /\ iterated' = <<>> /\ acc' = <<>>
                /\ resolved' = None /\ answers' = <<>>
           ELSE LET config == got.singleton.config
                    step == Dispatch(config, name, args)
                IN  CASE step.kind = "return" ->
                             /\ Acquire(got)
                             /\ Finish(Return(step.value), CallToolResult(Return(step.value)))
                             /\ requests' = <<>> /\ iterated' = <<>> /\ acc' = <<>>
                             /\ resolved' = step.resolved /\ answers' = <<>>
                      [] step.kind = "throw" ->
                             /\ Acquire(got)
                             /\ Finish(Throw(step.error), CallToolResult(Throw(step.error)))
                             /\ requests' = <<>> /\ iterated' = <<>> /\ acc' = <<>>
                             /\ resolved' = step.resolved /\ answers' = <<>>
                      [] step.kind = "request" ->
                             /\ Acquire(got)
                             /\ Suspend("await_tool")
                             /\ requests' = <<step.request>>
                             /\ iterated' = <<>> /\ acc' = <<>>
                             /\ resolved' = step.resolved /\ answers' = <<>>
                      [] step.kind = "aggregate" ->
                             LET pushed == PushLegacyProject(config)
                                 loop == RunLoop(pushed, name, 1, LoopStart)
                             IN  /\ Len(config.parentProjects) < MaxParents
                                 /\ envReads + got.read <= MaxEnvReads
                                 /\ envReads' = envReads + got.read
                                 /\ sinchClient' = Client(pushed)
                                 /\ iterated' = loop.seen
                                 /\ acc' = loop.entries
                                 /\ resolved' = loop.resolved
                                 /\ answers' = loop.answers
                                 /\ IF loop.request = NoRequest
                                    THEN /\ requests' = <<>>
                                         /\ Finish(Return(loop.entries),
                                                   CallToolResult(Return(loop.entries)))
                                    ELSE /\ requests' = <<loop.request>>
                                         /\ Suspend("await_aggregate")
    /\ UNCHANGED <<env, peer, invoked>>

\* A variant of ToolResponse in which the operation returns the response
\* object, not its body.
ToolResponseEnveloped(response) ==
    /\ pc = "await_tool"
    /\ LET returned == IF response.ok
                        THEN Return([status |-> 200, data |-> response.value])
                        ELSE response
       IN  Finish(returned, CallToolResult(returned))
    /\ answers' = Append(answers, response)
    /\ UNCHANGED <<env, peer, sinchClient, envReads, call, requests, iterated, acc, invoked,
                   resolved>>

\* The remote answers the request of a suspended non-aggregate tool call:
\* the method returns response.data, or the failure propagates.
ToolResponse(response) ==
    /\ pc = "await_tool"
    /\ Finish(response, CallToolResult(response))
    /\ answers' = Append(answers, response)
    /\ UNCHANGED <<env, peer, sinchClient, envReads, call, requests, iterated, acc, invoked,
                   resolved>>

\* The remote answers the listSubprojects request of a suspended aggregate
\* call: the entry is recorded and the loop goes on.
AggregateResponse(response) ==
    /\ pc = "await_aggregate"
    /\ LET config == sinchClient.config
           parentProjectId == iterated[Len(iterated)]
           entry == IF response.ok
                    THEN SuccessEntry(call.name, parentProjectId, response.value)
                    ELSE FailureEntry(call.name, parentProjectId, response.error)
           loop == RunLoop(config, call.name, Len(iterated) + 1,
                           [ entries |-> Append(acc, entry), seen |-> iterated,
                             answers |-> Append(answers, response),
                             resolved |-> resolved, request |-> NoRequest ])
       IN  /\ iterated' = loop.seen
           /\ acc' = loop.entries
           /\ resolved' = loop.resolved
           /\ answers' = loop.answers
           /\ IF loop.request = NoRequest
              THEN /\ requests' = requests
                   /\ Finish(Return(loop.entries), CallToolResult(Return(loop.entries)))
              ELSE /\ requests' = Append(requests, loop.request)
                   /\ Suspend("await_aggregate")
    /\ UNCHANGED <<env, peer, sinchClient, envReads, call, invoked>>

\* What a resource handler answers: the value it returns, or the error it
\* lets propagate to the protocol layer.
HandlerResult(completion) ==
    IF completion.ok THEN [returned |-> TRUE, value |-> completion.value]
    ELSE [returned |-> FALSE, error |-> completion.error]

\* ListResources always returns the descriptors collected: an error in its
\* body is caught and logged.
ListResult(resources) == [returned |-> TRUE, value |-> [resources |-> resources]]

\* The ListResources handler up to its first await.
ListResources ==
    /\ pc = "idle"
    /\ call' = [kind |-> "list"]
    /\ acc' = <<>>
    /\ LET got == GetSinchClient(sinchClient, env)
       IN  /\ Acquire(got)
           /\ IF ~got.outcome.ok
              THEN /\ Finish(got.outcome, ListResult(<<>>))
                   /\ requests' = <<>> /\ invoked' = <<>> /\ resolved' = None
              ELSE LET attempt == listSMSBatches(got.singleton.config, undefined,
                                                 undefined, undefined)
                   IN  /\ invoked' = <<Invocation("listSMSBatches", <<>>)>>
                       /\ resolved' = attempt.resolved
                       /\ IF attempt.ok
                          THEN /\ requests' = <<attempt.completion.value>>
                               /\ Suspend("await_batches")
                          ELSE /\ requests' = <<>>
                               /\ Finish(attempt.completion, ListResult(<<>>))
    /\ UNCHANGED <<env, peer, iterated, answers>>

\* A variant of BatchesResponse that lists the active numbers whether or not
\* SINCH_PROJECT_ID is set.
BatchesResponseAlwaysNumbers(response) ==
    /\ pc = "await_batches"
    /\ IF ~response.ok
       THEN /\ Finish(response, ListResult(acc))
            /\ UNCHANGED <<acc, requests, invoked, resolved>>
       ELSE LET batches == IF "batches" \in DOMAIN response.value
                           THEN response.value.batches ELSE <<>>
                resources == acc \o [i \in 1..Len(batches) |-> BatchDescriptor(batches[i])]
            IN  /\ acc' = resources
                /\ IF TRUE
                   THEN LET attempt == listActiveNumbers(sinchClient.config, undefined)
                        IN  /\ invoked' = Append(invoked, Invocation("listActiveNumbers", <<>>))
                            /\ resolved' = attempt.resolved
                            /\ IF attempt.ok
                               THEN /\ requests' = Append(requests, attempt.completion.value)
                                    /\ Suspend("await_numbers")
                               ELSE /\ requests' = requests
                                    /\ Finish(attempt.completion, ListResult(resources))
                   ELSE /\ Finish(Return(resources), ListResult(resources))
                        /\ UNCHANGED <<requests, invoked, resolved>>
    /\ answers' = Append(answers, response)
    /\ UNCHANGED <<env, peer, sinchClient, envReads, call, iterated>>

\* The remote answers the list-batches request: a descriptor per batch, and
\* then the active numbers if SINCH_PROJECT_ID is set.
BatchesResponse(response) ==
    /\ pc = "await_batches"
    /\ IF ~response.ok
       THEN /\ Finish(response, ListResult(acc))
            /\ UNCHANGED <<acc, requests, invoked, resolved>>
       ELSE LET batches == IF "batches" \in DOMAIN response.value
                           THEN response.value.batches ELSE <<>>
                resources == acc \o [i \in 1..Len(batches) |-> BatchDescriptor(batches[i])]
            IN  /\ acc' = resources
                /\ IF Truthy(env.SINCH_PROJECT_ID)
                   THEN LET attempt == listActiveNumbers(sinchClient.config, undefined)
                        IN  /\ invoked' = Append(invoked, Invocation("listActiveNumbers", <<>>))
                            /\ resolved' = attempt.resolved
                            /\ IF attempt.ok
                               THEN /\ requests' = Append(requests, attempt.completion.value)
                                    /\ Suspend("await_numbers")
                               ELSE /\ requests' = requests
                                    /\ Finish(attempt.completion, ListResult(resources))
                   ELSE /\ Finish(Return(resources), ListResult(resources))
                        /\ UNCHANGED <<requests, invoked, resolved>>
    /\ answers' = Append(answers, response)
    /\ UNCHANGED <<env, peer, sinchClient, envReads, call, iterated>>

\* A variant of NumbersResponse that returns nothing when the listing fails.
NumbersResponseDropsAll(response) ==
    /\ pc = "await_numbers"
    /\ IF ~response.ok
       THEN /\ Finish(response, ListResult(<<>>))
            /\ acc' = acc
       ELSE LET numbers == IF "activeNumbers" \in DOMAIN response.value
                           THEN response.value.activeNumbers ELSE <<>>
                resources == acc \o [i \in 1..Len(numbers) |-> NumberDescriptor(numbers[i])]
            IN  /\ acc' = resources
                /\ Finish(Return(resources), ListResult(resources))
    /\ answers' = Append(answers, response)
    /\ UNCHANGED <<env, peer, sinchClient, envReads, call, requests, iterated, invoked, resolved>>

\* The remote answers the list-active-numbers request.
NumbersResponse(response) ==
    /\ pc = "await_numbers"
    /\ IF ~response.ok
       THEN /\ Finish(response, ListResult(acc))
            /\ acc' = acc
       ELSE LET numbers == IF "activeNumbers" \in DOMAIN response.value
                           THEN response.value.activeNumbers ELSE <<>>
                resources == acc \o [i \in 1..Len(numbers) |-> NumberDescriptor(numbers[i])]
            IN  /\ acc' = resources
                /\ Finish(Return(resources), ListResult(resources))
    /\ answers' = Append(answers, response)
    /\ UNCHANGED <<env, peer, sinchClient, envReads, call, requests, iterated, invoked, resolved>>

\* The client method a recognized read calls: getSMSBatch or getActiveNumber
\* with no project name.
ReadRequest(config, invocation) ==
    IF invocation.method = "getSMSBatch"
    THEN getSMSBatch(config, Join(invocation.argument), undefined)
    ELSE getActiveNumber(config, invocation.argument, undefined)

\* The ReadResource handler up to its await.
ReadResource(uri) ==
    /\ pc = "idle"
    /\ call' = [kind |-> "read", uri |-> uri]
    /\ acc' = <<>>
    /\ LET url == ParseURL(uri)
       IN  IF ~url.ok
           THEN /\ Finish(url, HandlerResult(url))
                /\ requests' = <<>> /\ invoked' = <<>> /\ resolved' = None
                /\ UNCHANGED <<sinchClient, envReads>>
           ELSE LET got == GetSinchClient(sinchClient, env)
                IN  /\ Acquire(got)
                    /\ IF ~got.outcome.ok
                       THEN /\ Finish(got.outcome, HandlerResult(got.outcome))
                            /\ requests' = <<>> /\ invoked' = <<>> /\ resolved' = None
                       ELSE LET recognized == Recognize(uri, url.value)
                            IN  IF ~recognized.ok
                                THEN /\ Finish(recognized, HandlerResult(recognized))
                                     /\ requests' = <<>> /\ invoked' = <<>>
                                     /\ resolved' = None
                                ELSE LET attempt == ReadRequest(got.singleton.config,
                                                                 recognized.value)
                                     IN  /\ invoked' = <<recognized.value>>
                                         /\ resolved' = attempt.resolved
                                         /\ IF attempt.ok
                                            THEN /\ requests' = <<attempt.completion.value>>
                                                 /\ Suspend("await_read")
                                            ELSE /\ requests' = <<>>
                                                 /\ Finish(attempt.completion,
                                                           HandlerResult(attempt.completion))
    /\ UNCHANGED <<env, peer, iterated, answers>>

\* The remote answers the request of a suspended read: the contents, or the
\* failure propagates.
ReadResponse(response) ==
    /\ pc = "await_read"
    /\ LET completion ==
               IF response.ok
               THEN Return([contents |-> << [ uri |-> call.uri,
                                              mimeType |-> "application/json",
                                              text |-> JSONStringify(response.value) ] >>])
               ELSE response
       IN  Finish(completion, HandlerResult(completion))
    /\ answers' = Append(answers, response)
    /\ UNCHANGED <<env, peer, sinchClient, envReads, call, requests, iterated, acc, invoked,
                   resolved>>

\* The answer of the finished handler goes back to the client; the server
\* waits for the next request.
Reply ==
    /\ pc = "done"
    /\ pc' = "idle"
    /\ call' = NoCall
    /\ requests' = <<>> /\ iterated' = <<>> /\ acc' = <<>> /\ invoked' = <<>>
    /\ resolved' = None /\ answers' = <<>>
    /\ outcome' = None
    /\ result' = None
    /\ UNCHANGED <<env, peer, sinchClient, envReads>>

Next ==
    \/ \E name \in CalledNames : \E args \in ToolArguments(name) : CallTool(name, args)
    \/ \E response \in ToolResponses : ToolResponse(response)
    \/ \E response \in SubprojectResponses : AggregateResponse(response)
    \/ ListResources
    \/ \E response \in BatchListResponses : BatchesResponse(response)
    \/ \E response \in NumberListResponses : NumbersResponse(response)
    \/ \E uri \in ReadURIs : ReadResource(uri)
    \/ \E response \in ToolResponses : ReadResponse(response)
    \/ Reply

Spec == Init /\ [][Next]_vars

-----------------------------------------------------------------------------
(* The process, from its entry point *)

InitProcess == Loaded /\ pc = "starting"

\* main(): the process exits with status 1 when SINCH_SERVICE_PLAN_ID or
\* SINCH_API_TOKEN is not set, and connects the server to its transport
\* otherwise.
main ==
    /\ pc = "starting"
    /\ pc' = IF ~Truthy(env.SINCH_SERVICE_PLAN_ID) THEN "exited"
             ELSE IF ~Truthy(env.SINCH_API_TOKEN) THEN "exited"
                  ELSE "idle"
    /\ UNCHANGED <<env, peer, sinchClient, envReads, call, requests, iterated, acc,
                   invoked, resolved, answers, outcome, result>>

NextProcess == main \/ Next

SpecProcess == InitProcess /\ [][NextProcess]_vars

-----------------------------------------------------------------------------
(* Initialization over the texts of SINCH_PARENT_PROJECTS *)

MaxParentChars == 4

ParentChars == {"a", "b", " ", ","}

\* The text "a, b ,b".
SpacedParentsText == <<"a", ",", " ", "b", " ", ",", "b">>

\* SINCH_PARENT_PROJECTS: unset or empty (the empty sequence), every text of
\* these characters up to the length bound, and the text above.
ParentTexts ==
    UNION { [1..n -> ParentChars] : n \in 0..MaxParentChars } \cup {SpacedParentsText}

\* Legacy credentials, and a SINCH_PARENT_PROJECTS text.
ParentEnvironments ==
    [ SINCH_SERVICE_PLAN_ID : {"sp0"},
      SINCH_API_TOKEN       : {"tok0"},
      SINCH_PROJECT_ID      : {undefined},
      SINCH_CLIENT_ID       : {undefined},
      SINCH_CLIENT_SECRET   : {undefined},
      SINCH_REGION          : {undefined},
      SINCH_PARENT_PROJECTS : ParentTexts,
      SINCH_PROJECTS        : {[kind |-> "unset"]},
      SINCH_DEFAULT_PROJECT : {undefined} ]

InitParents == env \in ParentEnvironments /\ Unstarted /\ pc = "idle"

\* The first handler invoked initializes the client; SINCH_PROJECT_ID is not
\* set, so ListResources lists the batches only.
NextParents ==
    \/ ListResources
    \/ \E response \in BatchListResponses : BatchesResponse(response)
    \/ Reply

SpecParents == InitParents /\ [][NextParents]_vars

-----------------------------------------------------------------------------
(* Two tool calls in flight *)

\* The environments of the overlap runs: the legacy credentials set, with or
\* without SINCH_PROJECT_ID and SINCH_PARENT_PROJECTS.
OverlapEnvironments ==
    { e \in Environments :
        /\ e.SINCH_SERVICE_PLAN_ID = "sp0" /\ e.SINCH_API_TOKEN = "tok0"
        /\ e.SINCH_REGION = undefined
        /\ e.SINCH_PROJECTS.kind = "unset"
        /\ e.SINCH_DEFAULT_PROJECT = undefined }

InitOverlap == Init /\ env \in OverlapEnvironments

\* The tools the second call may name, and the arguments it passes.
PeerNames == AggregateTools \cup {"get_sms_batch"}
PeerArguments(name) ==
    IF name = "get_sms_batch" THEN Obj([batch_id |-> "b1"]) ELSE NoObject

\* The state of the second call: its position, what it has sent and
\* collected, and `parentsBefore`, the stored parent list as it was when
\* the call arrived.
Peer(at, name, before, loop, sent, completion) ==
    [ pc |-> at, name |-> name, parentsBefore |-> before,
      iterated |-> loop.seen, acc |-> loop.entries, answers |-> loop.answers,
      requests |-> sent, outcome |-> completion,
      result |-> IF at = "done" THEN CallToolResult(completion) ELSE None ]

\* A second CallTool request arrives while the first call is suspended at
\* an await: its handler runs up to its own first await.
PeerCall(name) ==
    /\ pc \in {"await_tool", "await_aggregate"}
    /\ peer = NoPeer
    /\ LET got == GetSinchClient(sinchClient, env)
           config == got.singleton.config
           before == config.parentProjects
           step == Dispatch(config, name, PeerArguments(name))
       IN  CASE step.kind = "request" ->
                    /\ peer' = Peer("await", name, before, LoopStart,
                                    <<step.request>>, None)
                    /\ UNCHANGED sinchClient
             [] step.kind = "throw" ->
                    /\ peer' = Peer("done", name, before, LoopStart, <<>>,
                                    Throw(step.error))
                    /\ UNCHANGED sinchClient
             [] step.kind = "return" ->
                    /\ peer' = Peer("done", name, before, LoopStart, <<>>,
                                    Return(step.value))
                    /\ UNCHANGED sinchClient
             [] step.kind = "aggregate" ->
                    LET pushed == PushLegacyProject(config)
                        loop == RunLoop(pushed, name, 1, LoopStart)
                    IN  /\ Len(config.parentProjects) < MaxParents
                        /\ sinchClient' = Client(pushed)
                        /\ peer' = IF loop.request = NoRequest
                                   THEN Peer("done", name, before, loop, <<>>,
                                             Return(loop.entries))
                                   ELSE Peer("await", name, before, loop,
                                             <<loop.request>>, None)
    /\ UNCHANGED <<env, envReads, pc, call, requests, iterated, acc, invoked, resolved,
                   answers, outcome, result>>

\* The remote answers the outstanding request of the second call.
PeerResponse(response) ==
    /\ peer.pc = "await"
    /\ IF peer.name \in AggregateTools
       THEN LET parentProjectId == peer.iterated[Len(peer.iterated)]
                entry == IF response.ok
                         THEN SuccessEntry(peer.name, parentProjectId, response.value)
                         ELSE FailureEntry(peer.name, parentProjectId, response.error)
                loop == RunLoop(sinchClient.config, peer.name, Len(peer.iterated) + 1,
                                [ entries |-> Append(peer.acc, entry),
                                  seen |-> peer.iterated,
                                  answers |-> Append(peer.answers, response),
                                  resolved |-> None, request |-> NoRequest ])
            IN  peer' = IF loop.request = NoRequest
                        THEN Peer("done", peer.name, peer.parentsBefore, loop,
                                  peer.requests, Return(loop.entries))
                        ELSE Peer("await", peer.name, peer.parentsBefore, loop,
                                  Append(peer.requests, loop.request), None)
       ELSE peer' = Peer("done", peer.name, peer.parentsBefore,
                         [LoopStart EXCEPT !.answers = <<response>>],
                         peer.requests, response)
    /\ UNCHANGED <<env, sinchClient, envReads, pc, call, requests, iterated, acc, invoked,
                   resolved, answers, outcome, result>>

\* Both calls have been answered (or the only one has); the server waits for
\* the next request.
ReplyBoth ==
    /\ pc = "done"
    /\ peer.pc \in {"idle", "done"}
    /\ pc' = "idle"
    /\ call' = NoCall
    /\ requests' = <<>> /\ iterated' = <<>> /\ acc' = <<>> /\ invoked' = <<>>
    /\ resolved' = None /\ answers' = <<>>
    /\ outcome' = None
    /\ result' = None
    /\ peer' = NoPeer
    /\ UNCHANGED <<env, sinchClient, envReads>>

NextOverlap ==
    \/ \E name \in CalledNames : \E args \in ToolArguments(name) : CallTool(name, args)
    \/ \E response \in ToolResponses : ToolResponse(response)
    \/ \E response \in SubprojectResponses : AggregateResponse(response)
    \/ \E name \in PeerNames : PeerCall(name)
    \/ \E response \in SubprojectResponses \cup ToolResponses : PeerResponse(response)
    \/ ReplyBoth

SpecOverlap == InitOverlap /\ [][NextOverlap]_vars

-----------------------------------------------------------------------------
(* Properties: project resolution *)

\* The tools whose case hands args.project_config to a client method.
SelectorTools == SwitchCases \ (AggregateTools \cup {"list_configured_projects"})

\* The five Numbers tools and the two client methods the resource handlers
\* call from that family.
NumbersTools ==
    { "search_available_numbers", "activate_number", "list_active_numbers",
      "get_active_number", "release_number" }
NumbersMethods == {"listActiveNumbers", "getActiveNumber"}

\* getProjectConfig has been called by the handler in flight (or finished),
\* on behalf of a tool that takes a selector.
SelectorCall ==
    /\ call.kind = "tool"
    /\ call.name \in SelectorTools
    /\ resolved # None

\* The project-name argument of that call; undefined when absent.
GivenName == Field(call.args.entries, "project_config")

\* getProjectConfig has been called with no project-name argument.
UnnamedCall ==
    /\ resolved # None
    /\ \/ call.kind \in {"list", "read"}
       \/ call.kind = "tool" /\ call.name \in AggregateTools
       \/ call.kind = "tool" /\ call.name \in SelectorTools /\ GivenName = undefined

\* SINCH_DEFAULT_PROJECT is set and is a key of the SINCH_PROJECTS object.
DefaultConfigured ==
    /\ env.SINCH_DEFAULT_PROJECT \notin {undefined, ""}
    /\ env.SINCH_PROJECTS.kind = "object"
    /\ env.SINCH_DEFAULT_PROJECT \in DOMAIN env.SINCH_PROJECTS.entries

\* Both legacy credentials are set in the environment.
LegacyConfigured ==
    /\ env.SINCH_SERVICE_PLAN_ID \notin {undefined, ""}
    /\ env.SINCH_API_TOKEN \notin {undefined, ""}

\* The bundle the legacy environment variables describe.
LegacyFromEnv ==
    [ servicePlanId |-> env.SINCH_SERVICE_PLAN_ID,
      apiToken      |-> env.SINCH_API_TOKEN,
      projectId     |-> env.SINCH_PROJECT_ID,
      appId         |-> undefined,
      clientId      |-> env.SINCH_CLIENT_ID,
      clientSecret  |-> env.SINCH_CLIENT_SECRET,
      region        |-> IF env.SINCH_REGION \in {undefined, ""} THEN "us"
                        ELSE env.SINCH_REGION ]

\* C1: whenever a project name that is not a key of the named-project
\* mapping is passed (the empty string included), getProjectConfig fails
\* with "Project configuration '<name>' not found"; it returns neither the
\* default project's bundle nor the legacy bundle.
C1_AbsentNameIsNotFound ==
    ( /\ SelectorCall
      /\ "project_config" \in DOMAIN call.args.entries
      /\ ~( env.SINCH_PROJECTS.kind = "object"
            /\ GivenName \in DOMAIN env.SINCH_PROJECTS.entries ) )
        => resolved = Throw("Project configuration '" \o GivenName \o "' not found")

\* The case that departs from C1: the empty name resolves to a bundle.
C1_EmptyNameResolves ==
    /\ SelectorCall
    /\ "project_config" \in DOMAIN call.args.entries
    /\ GivenName = ""
    /\ resolved.ok

\* C2: with no project-name argument, when the default project is
\* configured and is a key of the mapping, getProjectConfig returns exactly
\* that mapping entry, also when the legacy credentials are populated.
C2_DefaultProjectIsUsed ==
    (UnnamedCall /\ DefaultConfigured)
        => resolved = Return(env.SINCH_PROJECTS.entries[env.SINCH_DEFAULT_PROJECT])

\* C2's case: the default project resolves while the legacy credentials are
\* populated too, and a call without project name has finished.
C2_DefaultOverLegacy ==
    /\ UnnamedCall /\ DefaultConfigured /\ LegacyConfigured
    /\ pc = "done"
    /\ resolved.ok

\* C3: with no project-name argument and no default project that resolves,
\* getProjectConfig returns the bundle of the legacy fields (region 'us'
\* when unset) if both legacy credentials are populated, and fails with
\* "No valid project configuration found" otherwise, whatever the mapping
\* holds.
C3_LegacyOrNoValidConfiguration ==
    (UnnamedCall /\ ~DefaultConfigured)
        => IF LegacyConfigured
           THEN resolved = Return(LegacyFromEnv)
           ELSE resolved = Throw(NoValidConfigError)

\* C3's case: a default project name that is no key of a non-empty mapping,
\* the legacy credentials populated with no region, and the synthesized
\* bundle returned with region 'us'.
C3_LegacyBundleSynthesized ==
    /\ UnnamedCall
    /\ env.SINCH_DEFAULT_PROJECT = "ghost"
    /\ env.SINCH_PROJECTS.kind = "object" /\ env.SINCH_PROJECTS.entries # <<>>
    /\ LegacyConfigured /\ env.SINCH_REGION = undefined
    /\ resolved.ok /\ resolved.value.region = "us"

\* The other side of C3's case: no legacy credentials and a non-empty
\* mapping, and the call fails.
C3_NoValidConfiguration ==
    /\ UnnamedCall /\ ~DefaultConfigured /\ ~LegacyConfigured
    /\ env.SINCH_PROJECTS.kind = "object" /\ env.SINCH_PROJECTS.entries # <<>>
    /\ resolved = Throw(NoValidConfigError)

\* A Numbers operation has resolved its configuration.
NumbersCall ==
    /\ resolved # None
    /\ resolved.ok
    /\ \/ call.kind = "tool" /\ call.name \in NumbersTools
       \/ /\ call.kind \in {"list", "read"}
          /\ invoked # <<>>
          /\ invoked[Len(invoked)].method \in NumbersMethods

\* The configuration it resolved has no projectId.
NoProjectId ==
    \/ "projectId" \notin DOMAIN resolved.value
    \/ resolved.value.projectId \in {undefined, ""}

\* The requests the handler in flight had sent before the Numbers operation
\* began: ListResources has listed the batches by then.
RequestsBefore == IF call.kind = "list" THEN 1 ELSE 0

ProjectIdRequiredFor(name) ==
    "Project ID required for Numbers API. Please configure projectId for project '"
        \o name \o "'"

\* C4: a Numbers operation whose resolved configuration has no projectId
\* fails with the "Project ID required for Numbers API" error, and sends no
\* request.
C4_NumbersNeedProjectId ==
    (NumbersCall /\ NoProjectId)
        => /\ pc = "done"
           /\ ~outcome.ok
           /\ \E name \in {"default", "staging", "prod"} :
                  outcome.error = ProjectIdRequiredFor(name)
           /\ Len(requests) = RequestsBefore

\* C4's case: a Numbers tool called for a configuration without projectId.
C4_PreconditionFailed ==
    /\ NumbersCall /\ NoProjectId
    /\ call.kind = "tool"
    /\ pc = "done"
    /\ requests = <<>>

\* The name of the configuration a call resolved: the argument when one was
\* given, the default project's name when it resolved through it, 'default'
\* for the legacy configuration.
ResolvedName ==
    IF call.kind = "tool" /\ GivenName \notin {undefined, ""} THEN GivenName
    ELSE IF DefaultConfigured THEN env.SINCH_DEFAULT_PROJECT
         ELSE "default"

\* C5: when a Numbers operation fails the projectId precondition, the
\* message names the configuration that was resolved for the call.
C5_MessageNamesResolvedProject ==
    (NumbersCall /\ NoProjectId /\ pc = "done" /\ ~outcome.ok)
        => outcome.error = ProjectIdRequiredFor(ResolvedName)

\* The case that departs from C5: the call resolved through the default
\* project, and the message names 'default'.
C5_DefaultProjectUnnamed ==
    /\ NumbersCall /\ NoProjectId /\ pc = "done" /\ ~outcome.ok
    /\ DefaultConfigured
    /\ call.kind = "tool" /\ GivenName = undefined
    /\ outcome.error = ProjectIdRequiredFor("default")

-----------------------------------------------------------------------------
(* Properties: resources *)

\* getSinchClient can build a client from the environment: both legacy
\* credentials, or a SINCH_PROJECTS block that parses.
ConfigurationValid == LegacyConfigured \/ env.SINCH_PROJECTS.kind = "object"

\* C6: reading the URI ListResources synthesizes for a batch or for a phone
\* number is recognized by ReadResource, which calls getSMSBatch or
\* getActiveNumber with exactly the original identifier.
C6_SynthesizedURIsRoundTrip ==
    (call.kind = "read" /\ pc # "idle" /\ ConfigurationValid)
        => /\ \A id \in BatchIds :
                call.uri = BatchURI(id) => invoked = <<Invocation("getSMSBatch", id)>>
           /\ \A n \in PhoneNumbers :
                call.uri = NumberURI(n) => invoked = <<Invocation("getActiveNumber", n)>>

\* The case that departs from C6: the URI synthesized for batch 'b1' is
\* read in a valid configuration and is not found.
C6_SynthesizedURINotFound ==
    /\ call.kind = "read" /\ pc = "done" /\ ConfigurationValid
    /\ call.uri = BatchURI(<<"b", "1">>)
    /\ invoked = <<>>
    /\ outcome = Throw("Resource not found: sinch://sms/batch/b1")

\* URIs of neither recognized shape: missing identifier, unknown kind,
\* unknown family, wrong scheme.
UnrecognizedURIs == {MissingIdURI, UnknownKindURI, UnknownFamilyURI, WrongSchemeURI}

UnrecognizedRead == call.kind = "read" /\ call.uri \in UnrecognizedURIs

-----------------------------------------------------------------------------
(* Properties: tool calls *)

ToolCallDone == call.kind = "tool" /\ pc = "done"

\* C8: an error raised while a tool call is handled (configuration error,
\* named configuration not found, Numbers precondition, remote failure,
\* unknown tool) becomes a result with isError = true and the text "Error: "
\* followed by the message; the handler always returns, and a failed call
\* never gets a result that is not flagged.
C8_ErrorsBecomeErrorResults ==
    ToolCallDone
        => /\ result.returned
           /\ result.isError = ~outcome.ok
           /\ ~outcome.ok => result.text = "Error: " \o outcome.error
           /\ ~ConfigurationValid => outcome = Throw(ConfigRequiredError)
           /\ (ConfigurationValid /\ call.name \notin Range(tools))
                => outcome = Throw("Unknown tool: " \o call.name)
           /\ (resolved # None /\ ~resolved.ok /\ call.name \notin AggregateTools)
                => outcome = resolved
           /\ (call.name \in NumbersTools /\ resolved # None /\ resolved.ok /\ NoProjectId)
                => ~outcome.ok
           /\ (call.name \notin AggregateTools /\ answers # <<>> /\ ~answers[1].ok)
                => outcome = Throw(answers[1].error)

\* C8's case: the remote fails the request of a tool call.
C8_RemoteFailureReported ==
    /\ ToolCallDone
    /\ call.name \notin AggregateTools
    /\ answers # <<>> /\ ~answers[1].ok
    /\ result.isError

-----------------------------------------------------------------------------
(* Properties: the aggregate operations *)

AggregateDone ==
    /\ ToolCallDone
    /\ call.name \in AggregateTools
    /\ ConfigurationValid

\* The parent identifiers the environment configures, then the legacy
\* project identifier when set.
ConfiguredParents ==
    ParseParentProjects(env.SINCH_PARENT_PROJECTS)
        \o (IF env.SINCH_PROJECT_ID \in {undefined, ""} THEN <<>>
            ELSE <<env.SINCH_PROJECT_ID>>)

\* C9: every aggregate call iterates the configured parent identifiers in
\* order, followed by one occurrence of the legacy project identifier when
\* set, however many aggregate calls ran before it.
C9_ParentListDerivedFresh ==
    AggregateDone => iterated = ConfiguredParents

\* The case that departs from C9: the legacy identifier is iterated twice.
C9_LegacyIdentifierTwice ==
    /\ AggregateDone
    /\ env.SINCH_PROJECT_ID = "c"
    /\ Cardinality({i \in 1..Len(iterated) : iterated[i] = "c"}) = 2

\* C10: list_all_subprojects returns one entry per iterated parent, in
\* order: {parentProjectId, subprojects} for a parent whose listSubprojects
\* call succeeds, {parentProjectId, error, subprojects: []} for one whose
\* call fails; the parents after a failure are still queried, and the
\* operation does not fail.
C10_AggregateListIsolatesFailures ==
    (AggregateDone /\ call.name = "list_all_subprojects")
        => /\ outcome.ok /\ ~result.isError
           /\ iterated = sinchClient.config.parentProjects
           /\ Len(outcome.value) = Len(iterated)
           /\ Len(answers) = Len(iterated)
           /\ \A i \in 1..Len(iterated) :
                outcome.value[i] =
                    IF answers[i].ok
                    THEN [ parentProjectId |-> iterated[i],
                           subprojects |-> answers[i].value.subprojects ]
                    ELSE [ parentProjectId |-> iterated[i],
                           error |-> answers[i].error,
                           subprojects |-> <<>> ]
           /\ (iterated # <<>> /\ resolved.ok)
                => /\ Len(requests) = Len(iterated)
                   /\ \A i \in 1..Len(iterated) :
                        /\ requests[i].method = "GET"
                        /\ requests[i].path = "/v1alpha1/projects/" \o iterated[i] \o "/subprojects"

\* C10's case: a parent's call fails and a later parent's call succeeds.
C10_FailureThenSuccess ==
    /\ AggregateDone /\ call.name = "list_all_subprojects"
    /\ Len(requests) = Len(iterated)
    /\ \E i, j \in 1..Len(iterated) : i < j /\ ~answers[i].ok /\ answers[j].ok

\* C11: test_parent_projects returns one entry per iterated parent, in
\* order, with status 'accessible' exactly when the listSubprojects probe of
\* that parent succeeded and status 'error' with the failure's message
\* otherwise; the parents after a failing probe are still probed.
C11_AggregateTestReportsEachProbe ==
    (AggregateDone /\ call.name = "test_parent_projects")
        => /\ outcome.ok /\ ~result.isError
           /\ iterated = sinchClient.config.parentProjects
           /\ Len(outcome.value) = Len(iterated)
           /\ Len(answers) = Len(iterated)
           /\ \A i \in 1..Len(iterated) :
                /\ outcome.value[i].parentProjectId = iterated[i]
                /\ outcome.value[i].status = "accessible" <=> answers[i].ok
                /\ outcome.value[i] =
                    IF answers[i].ok
                    THEN [ parentProjectId |-> iterated[i], status |-> "accessible",
                           message |-> "Successfully connected" ]
                    ELSE [ parentProjectId |-> iterated[i], status |-> "error",
                           message |-> answers[i].error ]
           /\ (iterated # <<>> /\ resolved.ok)
                => /\ Len(requests) = Len(iterated)
                   /\ \A i \in 1..Len(iterated) :
                        /\ requests[i].method = "GET"
                        /\ requests[i].path = "/v1alpha1/projects/" \o iterated[i] \o "/subprojects"

\* C11's case: a probe fails and the probe of a later parent succeeds.
C11_FailedProbeThenAccessible ==
    /\ AggregateDone /\ call.name = "test_parent_projects"
    /\ Len(requests) = Len(iterated)
    /\ \E i, j \in 1..Len(iterated) : i < j /\ ~answers[i].ok /\ answers[j].ok

-----------------------------------------------------------------------------
(* Properties: the configuration singleton *)

\* The parent identifiers SINCH_PARENT_PROJECTS lists, as stored at
\* initialization.
ParentsAtInitialization == ParseParentProjects(env.SINCH_PARENT_PROJECTS)

\* The SinchConfig as initialization stores it.
ConfigAtInitialization ==
    [ servicePlanId  |-> env.SINCH_SERVICE_PLAN_ID,
      apiToken       |-> env.SINCH_API_TOKEN,
      projectId      |-> env.SINCH_PROJECT_ID,
      clientId       |-> env.SINCH_CLIENT_ID,
      clientSecret   |-> env.SINCH_CLIENT_SECRET,
      region         |-> IF env.SINCH_REGION \in {undefined, ""} THEN "us"
                         ELSE env.SINCH_REGION,
      parentProjects |-> ParentsAtInitialization,
      projects       |-> IF env.SINCH_PROJECTS.kind = "object"
                         THEN [defined |-> TRUE, entries |-> env.SINCH_PROJECTS.entries]
                         ELSE [defined |-> FALSE],
      defaultProject |-> env.SINCH_DEFAULT_PROJECT ]

\* C12: once the singleton is built, no tool call or resource operation
\* changes a field of the stored SinchConfig: it stays as initialization
\* stored it.
C12_StoredConfigNeverChanges ==
    sinchClient.built => sinchClient.config = ConfigAtInitialization

\* The case that departs from C12: an aggregate call has finished and the
\* stored parent-project list is longer than at initialization.
C12_ParentListGrown ==
    /\ AggregateDone
    /\ sinchClient.built
    /\ Len(sinchClient.config.parentProjects) > Len(ParentsAtInitialization)

-----------------------------------------------------------------------------
(* Properties: overlapping calls *)

\* The first call is a finished aggregate call, and a second call arrived
\* while it was suspended.
OverlappedAggregateDone ==
    /\ AggregateDone
    /\ peer # NoPeer

\* What the first call iterates when it runs alone: the stored parent list
\* as its own start left it, which is the list the second call found.
IteratedAlone == peer.parentsBefore

\* C13: a tool call that overlaps another one issues the requests and
\* returns the result it would when run alone against the same answers; an
\* aggregate call suspended in its loop iterates, queries and reports the
\* parents it would alone, also when another aggregate call starts
\* meanwhile, and so does the call that started second.
C13_OverlappingCallsIndependent ==
    /\ OverlappedAggregateDone
         => /\ iterated = IteratedAlone
            /\ Len(requests) = Len(IteratedAlone)
            /\ Len(outcome.value) = Len(IteratedAlone)
    /\ (peer # NoPeer /\ peer.pc = "done" /\ peer.name \in AggregateTools)
         => /\ peer.iterated =
                 peer.parentsBefore
                     \o (IF env.SINCH_PROJECT_ID \in {undefined, ""} THEN <<>>
                         ELSE <<env.SINCH_PROJECT_ID>>)
            /\ Len(peer.requests) = Len(peer.iterated)

\* The case that departs from C13: the suspended aggregate call iterates
\* the identifier the second aggregate call pushed.
C13_SuspendedCallSeesPush ==
    /\ OverlappedAggregateDone
    /\ peer.name \in AggregateTools
    /\ iterated = Append(IteratedAlone, "c")
    /\ Len(requests) = Len(IteratedAlone) + 1

-----------------------------------------------------------------------------
(* Properties: startup and initialization *)

\* SINCH_PROJECTS holds a non-empty object of named projects.
NamedProjectsConfigured ==
    env.SINCH_PROJECTS.kind = "object" /\ env.SINCH_PROJECTS.entries # <<>>

\* Neither legacy credential is set.
LegacyUnset ==
    /\ env.SINCH_SERVICE_PLAN_ID \in {undefined, ""}
    /\ env.SINCH_API_TOKEN \in {undefined, ""}

\* C14: a process configured with a named-project mapping only (no legacy
\* credentials) reaches the serving state; missing legacy credentials never
\* end the process at startup.
C14_NamedProjectsOnlyIsServed ==
    (NamedProjectsConfigured /\ LegacyUnset) => pc # "exited"

\* The case that departs from C14: the process has exited at startup with a
\* usable named-project mapping.
C14_ExitedAtStartup ==
    /\ NamedProjectsConfigured /\ LegacyUnset
    /\ pc = "exited"

\* The handler in flight or finished has called getSinchClient.
ClientRequested ==
    \/ call.kind \in {"tool", "list"}
    \/ call.kind = "read" /\ call.uri # NoSchemeURI

C16_MalformedProjectsDegrade ==
    (env.SINCH_PROJECTS.kind = "malformed" /\ ClientRequested)
        => IF LegacyConfigured
           THEN /\ sinchClient.built
                /\ ~sinchClient.config.projects.defined
                /\ UnnamedCall => resolved = Return(LegacyFromEnv)
                /\ (SelectorCall /\ GivenName # undefined)
                     => /\ resolved =
                             Throw("Project configuration '" \o GivenName \o "' not found")
                        /\ pc = "done"
                        /\ outcome = resolved
           ELSE /\ ~sinchClient.built
                /\ pc = "done"
                /\ outcome = Throw(ConfigRequiredError)

\* The case that departs from C16: malformed SINCH_PROJECTS with the legacy
\* credentials, and a call whose project name "" is resolved to the legacy
\* bundle.
C16_EmptyNameAfterParseFailure ==
    /\ env.SINCH_PROJECTS.kind = "malformed" /\ LegacyConfigured
    /\ SelectorCall /\ GivenName = ""
    /\ resolved = Return(LegacyFromEnv)

-----------------------------------------------------------------------------
(* Properties: the outbound request *)

\* A non-aggregate operation is in flight or finished: a tool that takes a
\* selector, or a resource handler.
RoutedCall ==
    \/ call.kind \in {"list", "read"}
    \/ call.kind = "tool" /\ call.name \in SelectorTools

\* What follows ".../batches" in the SMS paths and "/v1/projects/{id}" in
\* the Numbers paths of the calls considered.
SMSRests ==
    { "", "?", "?start_date=2024-01-01" }
    \cup { "/" \o id \o rest :
             id \in {"b1"},
             rest \in {"", "/delivery_report/full", "/delivery_report/summary"} }
NumbersRests ==
    { "/availableNumbers?regionCode=US&capability=SMS%2CVOICE",
      "/activeNumbers", "/activeNumbers/%2B1" }

\* The request carries the credentials, region and identifiers of the one
\* project configuration c.
RoutedThrough(r, c) ==
    /\ r.authorization = "Bearer " \o Str(Field(c, "apiToken"))
    /\ \/ /\ r.baseURL = "https://"
                           \o (IF Field(c, "region") \in {undefined, ""} THEN "us"
                               ELSE c.region)
                           \o ".sms.api.sinch.com"
          /\ r.path \in { "/xms/v1/" \o Str(Field(c, "servicePlanId")) \o "/batches" \o rest :
                            rest \in SMSRests }
       \/ /\ r.baseURL = "https://numbers.api.sinch.com"
          /\ Field(c, "projectId") \notin {undefined, ""}
          /\ r.path \in { "/v1/projects/" \o c.projectId \o rest : rest \in NumbersRests }
       \/ r.baseURL \in { "https://verification.api.sinch.com",
                          "https://subproject.api.sinch.com" }

\* C18: in every request of a non-aggregate operation, the bearer token, the
\* region of the SMS base address, the servicePlanId of an SMS path and the
\* projectId of a Numbers path are those of the one project configuration
\* resolved for the call. With default project 'staging' (region eu, token
\* tok1, plan sp1), send_sms without project name goes to
\* https://eu.sms.api.sinch.com with 'Bearer tok1' and /xms/v1/sp1/batches.
C18_RequestFromResolvedConfig ==
    (RoutedCall /\ requests # <<>>)
        => /\ resolved # None
           /\ resolved.ok
           /\ \A i \in 1..Len(requests) : RoutedThrough(requests[i], resolved.value)
           /\ ( /\ call.kind = "tool" /\ call.name = "send_sms"
                /\ GivenName = undefined
                /\ DefaultConfigured /\ env.SINCH_DEFAULT_PROJECT = "staging" )
                => /\ requests[1].baseURL = "https://eu.sms.api.sinch.com"
                   /\ requests[1].authorization = "Bearer tok1"
                   /\ requests[1].path = "/xms/v1/sp1/batches"

\* C18's case: send_sms without project name, resolved through the default
\* project 'staging' while legacy credentials are configured as well.
C18_StagingByDefault ==
    /\ call.kind = "tool" /\ call.name = "send_sms"
    /\ requests # <<>>
    /\ GivenName = undefined
    /\ DefaultConfigured /\ env.SINCH_DEFAULT_PROJECT = "staging"
    /\ LegacyConfigured /\ env.SINCH_REGION = undefined
    /\ requests # <<>>

\* C19: a successful call of a tool that is neither aggregate nor
\* list_configured_projects has issued exactly one request, and what it
\* returns is the body the remote answered to that request, unmodified;
\* list_configured_projects issues no request.
C19_OneRequestBodyVerbatim ==
    /\ (ToolCallDone /\ call.name \in SelectorTools /\ outcome.ok)
         => /\ Len(requests) = 1
            /\ answers = <<outcome>>
            /\ result = [ returned |-> TRUE, isError |-> FALSE,
                          text |-> JSONStringify(answers[1].value) ]
    /\ (call.kind = "tool" /\ call.name = "list_configured_projects")
         => /\ requests = <<>>
            /\ answers = <<>>

\* C19's case: a tool call that succeeded after the remote answered its
\* request.
C19_AnsweredCall ==
    /\ ToolCallDone /\ call.name = "get_delivery_report"
    /\ outcome.ok
    /\ requests # <<>>

\* The project names a caller may give, undefined for none.
SelectorValues == {undefined, "", "staging", "prod", "ghost", "default"}

\* The arguments with the project name replaced by `value`.
WithSelector(args, value) ==
    Obj([k \in (DOMAIN args.entries \ {"project_config"})
                 \cup (IF value = undefined THEN {} ELSE {"project_config"})
            |-> IF k = "project_config" THEN value ELSE args.entries[k]])

\* C20: the project name a tool is called with is used to resolve the
\* project configuration only: the request body has no project_config
\* field, and the same call with any other project name (or none) that
\* resolves to an equal configuration issues the identical request (method,
\* base address, authorization, path with its query, body).
C20_SelectorNotForwarded ==
    (SelectorCall /\ requests # <<>>)
        => /\ "project_config" \notin DOMAIN requests[1].body
           /\ \A value \in SelectorValues :
                LET other == Dispatch(sinchClient.config, call.name,
                                      WithSelector(call.args, value))
                IN  other.resolved = resolved
                        => /\ other.kind = "request"
                           /\ other.request = requests[1]

\* C20's case: send_sms naming the project that is also the default, so that
\* the call without a name resolves to an equal configuration.
C20_NamedDefaultProject ==
    /\ SelectorCall /\ call.name = "send_sms"
    /\ requests # <<>>
    /\ GivenName = "staging"
    /\ DefaultConfigured /\ env.SINCH_DEFAULT_PROJECT = "staging"

-----------------------------------------------------------------------------
(* Properties: listing resources *)

ListDone == call.kind = "list" /\ pc = "done"

\* The descriptors of the batches, and of the numbers, a successful answer
\* holds.
BatchDescriptorsOf(answer) ==
    IF "batches" \in DOMAIN answer.value
    THEN [i \in 1..Len(answer.value.batches) |-> BatchDescriptor(answer.value.batches[i])]
    ELSE <<>>
NumberDescriptorsOf(answer) ==
    IF "activeNumbers" \in DOMAIN answer.value
    THEN [i \in 1..Len(answer.value.activeNumbers)
            |-> NumberDescriptor(answer.value.activeNumbers[i])]
    ELSE <<>>

\* The descriptors collected before the first failure, from what the remote
\* answered.
CollectedBeforeFailure ==
    IF answers = <<>> THEN <<>>
    ELSE IF ~answers[1].ok THEN <<>>
    ELSE IF Len(answers) = 1 THEN BatchDescriptorsOf(answers[1])
    ELSE IF ~answers[2].ok THEN BatchDescriptorsOf(answers[1])
    ELSE BatchDescriptorsOf(answers[1]) \o NumberDescriptorsOf(answers[2])

\* C21: ListResources never propagates a failure: whatever the
\* configuration and whatever the remote answers, it returns a resource
\* list, holding exactly the descriptors collected before the first failure
\* (none if the client cannot be built or the batch listing fails, the batch
\* descriptors if only the active-numbers listing fails).
C21_ListDegradesToCollected ==
    ListDone
        => /\ result = [returned |-> TRUE, value |-> [resources |-> CollectedBeforeFailure]]
           /\ ~sinchClient.built => result.value.resources = <<>>
           /\ Len(answers) <= 2

\* C21's case: batches were listed, then the active-numbers listing failed.
C21_NumbersListingFailed ==
    /\ ListDone
    /\ Len(answers) = 2 /\ answers[1].ok /\ ~answers[2].ok
    /\ BatchDescriptorsOf(answers[1]) # <<>>

-----------------------------------------------------------------------------
(* Properties: resolution is a function of the configuration *)

\* C22: with the environment unchanged, resolving a project name (or no
\* name) gives the same outcome whenever it is done: after any tool calls and
\* resource operations, aggregate calls included, getProjectConfig returns
\* a bundle structurally equal to the one it returned on the configuration
\* as initialized, and throws where it threw; the resolution a tool call
\* recorded is that one.
C22_ResolutionRepeatable ==
    sinchClient.built
        => /\ \A name \in SelectorValues :
                getProjectConfig(sinchClient.config, name)
                    = getProjectConfig(ConfigAtInitialization, name)
           /\ SelectorCall => resolved = getProjectConfig(ConfigAtInitialization, GivenName)

\* C22's case: a call without project name resolved to the legacy bundle
\* after an aggregate call had run.
C22_ResolvedAfterAggregate ==
    /\ sinchClient.built
    /\ sinchClient.config.parentProjects # ParentsAtInitialization
    /\ SelectorCall /\ GivenName = undefined
    /\ resolved = Return(LegacyFromEnv)

-----------------------------------------------------------------------------
(* Properties: the requests of the SMS tools *)

\* send_sms has issued its request.
SendSMSIssued ==
    /\ call.kind = "tool" /\ call.name = "send_sms"
    /\ requests # <<>>

\* The property of the body sent, undefined when the body has none.
Sent(property) == Field(requests[1].body, property)

\* C23: the body send_sms posts carries delivery_report = "none" and
\* flash_message = false when the caller gave none, and the caller's values
\* when given.
C23_SendSMSDefaultsSent ==
    SendSMSIssued
        => /\ Sent("delivery_report")
                = IF "delivery_report" \in DOMAIN call.args.entries
                  THEN call.args.entries.delivery_report ELSE "none"
           /\ "flash_message" \in DOMAIN requests[1].body
           /\ requests[1].body.flash_message
                = IF "flash_message" \in DOMAIN call.args.entries
                  THEN call.args.entries.flash_message ELSE FALSE

\* The case that departs from C23: send_sms called without delivery_report
\* and flash_message, and a body sent without them.
C23_DefaultsMissingFromBody ==
    /\ SendSMSIssued
    /\ DOMAIN call.args.entries \cap {"delivery_report", "flash_message"} = {}
    /\ DOMAIN requests[1].body \cap {"delivery_report", "flash_message"} = {}

\* The regions an SMS base address may be built for.
Regions == {"us", "eu", "au", "br", "ca"}

\* The requests issued that went to the SMS family.
SMSRequests ==
    { i \in 1..Len(requests) :
        requests[i].baseURL \notin { "https://numbers.api.sinch.com",
                                     "https://verification.api.sinch.com",
                                     "https://subproject.api.sinch.com" } }

\* C24: the region of every SMS base address is one of us, eu, au, br, ca,
\* for legacy and named configurations and for every value of SINCH_REGION.
C24_RegionInEnumeration ==
    \A i \in SMSRequests :
        requests[i].baseURL \in { "https://" \o r \o ".sms.api.sinch.com" : r \in Regions }

\* The case that departs from C24: SINCH_REGION=xx, and a request to the
\* host it names.
C24_RegionOutsideEnumeration ==
    /\ env.SINCH_REGION = "xx"
    /\ SMSRequests # {}
    /\ \E i \in SMSRequests : requests[i].baseURL = "https://xx.sms.api.sinch.com"

-----------------------------------------------------------------------------
(* Properties: the calls ListResources makes *)

\* client.listSMSBatches() and client.listActiveNumbers(), with no argument.
ListBatchesCall == Invocation("listSMSBatches", <<>>)
ListNumbersCall == Invocation("listActiveNumbers", <<>>)

\* The batch listing has been answered, and with success.
BatchListingSucceeded == answers # <<>> /\ answers[1].ok

\* C25: ListResources calls list-batches once and then list-active-numbers
\* once if and only if SINCH_PROJECT_ID is set and the batch listing
\* succeeded; it makes no other call, list-batches once whenever a client
\* exists, and each call is resolved with no project name (the default
\* project context).
C25_ListCallsBatchesThenNumbers ==
    call.kind = "list"
        => /\ invoked \in {<<>>, <<ListBatchesCall>>, <<ListBatchesCall, ListNumbersCall>>}
           /\ invoked = <<>> <=> ~sinchClient.built
           /\ invoked = <<ListBatchesCall, ListNumbersCall>>
                <=> (env.SINCH_PROJECT_ID \notin {undefined, ""} /\ BatchListingSucceeded)
           /\ invoked # <<>>
                => resolved = getProjectConfig(ConfigAtInitialization, undefined)

\* C25's case: both calls made, SINCH_PROJECT_ID set.
C25_BothListingsCalled ==
    /\ ListDone
    /\ env.SINCH_PROJECT_ID = "c"
    /\ invoked = <<ListBatchesCall, ListNumbersCall>>
    /\ Len(answers) = 2

\* ListResources has called client.listActiveNumbers().
NumbersListingCalled == call.kind = "list" /\ Len(invoked) = 2

\* C26: when ListResources calls list-active-numbers, the configuration
\* resolved for the call has the projectId SINCH_PROJECT_ID names: the call
\* passes the projectId precondition, its request is issued, and it
\* addresses that project.
C26_NumbersListingUsesGlobalProject ==
    NumbersListingCalled
        => /\ resolved.ok
           /\ Field(resolved.value, "projectId") = env.SINCH_PROJECT_ID
           /\ Len(requests) = 2
           /\ requests[2].path
                = "/v1/projects/" \o env.SINCH_PROJECT_ID \o "/activeNumbers"

\* The case that departs from C26: SINCH_PROJECT_ID is set, the call is
\* resolved through a default project without projectId, and fails the
\* precondition with no request issued.
C26_NumbersListingFailsPrecondition ==
    /\ NumbersListingCalled /\ pc = "done"
    /\ env.SINCH_PROJECT_ID = "c"
    /\ env.SINCH_DEFAULT_PROJECT = "staging"
    /\ resolved = Return(StagingConfig)
    /\ Len(requests) = 1
    /\ outcome = Throw("Project ID required for Numbers API. "
                       \o "Please configure projectId for project 'default'")

-----------------------------------------------------------------------------
(* Properties: the projects listed and the names resolved *)

\* The names list_configured_projects gives in this environment: the keys
\* of SINCH_PROJECTS, and 'default' for a populated legacy configuration.
ListedNames ==
    (IF env.SINCH_PROJECTS.kind = "object" THEN DOMAIN env.SINCH_PROJECTS.entries ELSE {})
        \cup (IF LegacyConfigured THEN {"default"} ELSE {})

\* The configuration the entry of that name describes.
Described(name) ==
    IF name = "default" THEN LegacyFromEnv ELSE env.SINCH_PROJECTS.entries[name]

\* C27: every name list_configured_projects returns is usable as
\* project_config: a tool call that passes it resolves to the configuration
\* the entry describes, 'default' to the legacy bundle.
C27_ListedNamesResolve ==
    /\ (ToolCallDone /\ call.name = "list_configured_projects" /\ outcome.ok)
         => { e.name : e \in outcome.value.named }
                \cup { outcome.value.legacy[i].name : i \in 1..Len(outcome.value.legacy) }
              = ListedNames
    /\ (SelectorCall /\ GivenName \in ListedNames)
         => resolved = Return(Described(GivenName))

\* The case that departs from C27: the legacy configuration is listed as
\* 'default', and a call that passes 'default' finds no such project.
C27_DefaultEntryNotFound ==
    /\ LegacyConfigured
    /\ SelectorCall /\ GivenName = "default"
    /\ pc = "done"
    /\ outcome = Throw("Project configuration 'default' not found")

-----------------------------------------------------------------------------
(* Properties: the catalog and the dispatcher *)

\* The names of the tool catalog.
CatalogNames == Range(tools)

\* A tool call has failed on the unknown-tool path.
UnknownToolFailure ==
    /\ ToolCallDone
    /\ outcome = Throw("Unknown tool: " \o call.name)

\* The catalog and the switch name the same operations, and a call of a
\* catalog name never fails on the unknown-tool path.
CatalogHandled ==
    /\ CatalogNames = SwitchCases
    /\ (call.kind = "tool" /\ call.name \in CatalogNames) => ~UnknownToolFailure

-----------------------------------------------------------------------------
(* Properties: the delivery report *)

\* get_delivery_report has issued its request.
DeliveryReportIssued ==
    /\ call.kind = "tool" /\ call.name = "get_delivery_report"
    /\ requests # <<>>

\* The full flag as the caller gave it: true, or false or omitted.
FullRequested ==
    /\ "full" \in DOMAIN call.args.entries
    /\ call.args.entries.full = TRUE

\* C29: get_delivery_report requests .../batches/{id}/delivery_report/full
\* exactly when the full flag is true, and .../delivery_report/summary when
\* the flag is false or omitted.
C29_FullOrSummaryByFlag ==
    DeliveryReportIssued
        => /\ Len(requests) = 1
           /\ requests[1].method = "GET"
           /\ requests[1].path
                = "/xms/v1/" \o Str(Field(resolved.value, "servicePlanId")) \o "/batches/"
                    \o call.args.entries.batch_id \o "/delivery_report/"
                    \o (IF FullRequested THEN "full" ELSE "summary")

\* C29's case: the full report requested.
C29_FullReportRequested ==
    /\ DeliveryReportIssued
    /\ FullRequested
    /\ requests[1].path = "/xms/v1/sp0/batches/b1/delivery_report/full"

-----------------------------------------------------------------------------
(* Properties: the parent-project list at initialization *)

\* The positions of the commas of a text, and the number of them.
CommasOf(text) == { j \in 1..Len(text) : text[j] = "," }

\* The position of the k-th comma; 0 before the first entry, Len + 1 after
\* the last.
CommaAt(text, k) ==
    IF k = 0 THEN 0
    ELSE IF k > Cardinality(CommasOf(text)) THEN Len(text) + 1
    ELSE CHOOSE j \in CommasOf(text) : Cardinality({ h \in CommasOf(text) : h <= j }) = k

\* The characters of a piece from its first to its last character that is
\* not a space.
Stripped(chars) ==
    LET solid == { j \in 1..Len(chars) : chars[j] # " " }
    IN  IF solid = {} THEN <<>>
        ELSE SubSeq(chars, CHOOSE j \in solid : \A h \in solid : j <= h,
                           CHOOSE j \in solid : \A h \in solid : h <= j)

\* The list the claim describes: one entry per comma-separated piece, in
\* order, each trimmed, duplicates and empty entries kept; empty for no text.
SplitAndTrimmed(text) ==
    IF text = <<>> THEN <<>>
    ELSE [ k \in 1..(Cardinality(CommasOf(text)) + 1) |->
             Join(Stripped(SubSeq(text, CommaAt(text, k - 1) + 1, CommaAt(text, k) - 1))) ]

\* C30: the parent-project list stored at initialization is the
\* SINCH_PARENT_PROJECTS text split on commas, each entry trimmed, in order,
\* duplicates and empty entries kept ("a, b ,b" gives a, b, b); an unset or
\* empty text gives the empty list.
C30_ParentListSplitAndTrimmed ==
    sinchClient.built
        => /\ sinchClient.config.parentProjects = SplitAndTrimmed(env.SINCH_PARENT_PROJECTS)
           /\ env.SINCH_PARENT_PROJECTS = SpacedParentsText
                => sinchClient.config.parentProjects = <<"a", "b", "b">>
           /\ env.SINCH_PARENT_PROJECTS = <<>>
                => sinchClient.config.parentProjects = <<>>

\* C30's case: a text with an empty entry and a duplicate, initialized.
C30_EmptyEntryAndDuplicateKept ==
    /\ sinchClient.built
    /\ env.SINCH_PARENT_PROJECTS = <<"a", ",", ",", "a">>
    /\ sinchClient.config.parentProjects = <<"a", "", "a">>

====
